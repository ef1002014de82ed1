------------------------------ MODULE LlmCalls ------------------------------
(***************************************************************************)
(* The tenant's AI provider: the settings panel that chooses it, the row   *)
(* with its encrypted key, and a call of the features that use it, with    *)
(* the retries of the OpenAI-compatible client.                            *)
(*                                                                         *)
(* A feature reads the provider's name first and, unless that is "manual", *)
(* calls chat(), which reads the row again.  The endpoint may refuse the   *)
(* optional fields of a request -- naming one or not -- and be in trouble. *)
(***************************************************************************)
EXTENDS Naturals, TLC

CONSTANTS Choices,    \* the providers the admin picks from
          NoLlmRow,
          LlmScenes   \* what the endpoint is like, and how much may happen

Keyed  == {"anthropic", "openai", "gemini", "openai_compat"}
Compat == {"openai", "gemini", "ollama", "openai_compat"}
OptionalFields == {"seed", "effort", "schema"}
LlmAttempts == 4
HasKey(row) == row # NoLlmRow /\ row.key # "none"
LlmRowOK(row) ==
  row # NoLlmRow => /\ row = [provider |-> row.provider, key |-> row.key, on |-> row.on]
                    /\ row.provider \in Keyed => row.key # "none"

(* A feature asks for optional fields; a row that is stored at the start   *)
(* was saved by upsertConfig.                                              *)
LlmFields == {"row", "unknown", "names", "broken", "deadline", "wants",
              "clicks", "others", "calls", "troubles"}
ASSUME LlmAssumption == \A s \in LlmScenes :
  /\ s = [n \in LlmFields |-> s[n]] /\ s.wants \subseteq SUBSET OptionalFields
  /\ LlmRowOK(s.row)

VARIABLES llmScene, llm, aiPanel, chat
llmVars == <<llmScene, llm, aiPanel, chat>>

NoPut == [key |-> "none"]
NoChat == [at |-> "none"]
PanelOf(row) == [row |-> row, put |-> NoPut,
               form |-> IF row = NoLlmRow THEN [provider |-> "anthropic", typed |-> FALSE, on |-> TRUE]
                        ELSE [provider |-> row.provider, typed |-> FALSE, on |-> row.on]]
LlmInit == /\ llmScene \in LlmScenes
           /\ llm = llmScene.row
           /\ aiPanel = PanelOf(llm)
           /\ chat = NoChat
Clicks(n) == /\ llmScene[n] > 0
             /\ llmScene' = [llmScene EXCEPT ![n] = @ - 1]

-----------------------------------------------------------------------------
(* The panel.  It does not see what other admins do; Clear sends the       *)
(* provider of the form, saved or not, and keeps the switch.               *)
FillIn == /\ aiPanel.put = NoPut /\ Clicks("clicks")
          /\ \E p \in Choices, typed, on \in BOOLEAN :
               LET form == [provider |-> p, typed |-> typed, on |-> on]
               IN  /\ form # aiPanel.form /\ (typed => p \in Keyed)
                   /\ aiPanel' = [aiPanel EXCEPT !.form = form]
          /\ UNCHANGED <<llm, chat>>
PressSave == /\ aiPanel.put = NoPut /\ Clicks("clicks")
             /\ aiPanel' = [aiPanel EXCEPT !.put =
                  [provider |-> aiPanel.form.provider, on |-> {aiPanel.form.on},
                   key |-> IF aiPanel.form.typed THEN "new" ELSE "keep"]]
             /\ UNCHANGED <<llm, chat>>
PressClear == /\ aiPanel.put = NoPut /\ aiPanel.form.provider \in Keyed
              /\ HasKey(aiPanel.row) /\ Clicks("clicks")
              /\ aiPanel' = [aiPanel EXCEPT !.put =
                   [provider |-> aiPanel.form.provider, on |-> {}, key |-> "clear"]]
              /\ UNCHANGED <<llm, chat>>

(* upsertConfig.  Keeping the key keeps whatever key is there.             *)
MayPut_Untested(b) == TRUE
MayPut(b) == b.provider \in Keyed => b.key = "new" \/ (b.key = "keep" /\ HasKey(llm))
StoredKey(b) == CASE b.key = "new"   -> "good"
                  [] b.key = "clear" -> "none"
                  [] b.key = "keep"  -> IF HasKey(llm) THEN llm.key ELSE "none"
Put(b) ==
  [provider |-> b.provider, key |-> StoredKey(b),
   on |-> IF b.on # {} THEN CHOOSE v \in b.on : TRUE ELSE IF llm = NoLlmRow THEN TRUE ELSE llm.on]
UpsertConfig ==
  LET b == aiPanel.put
  IN  /\ b # NoPut
      /\ IF MayPut(b)
         THEN /\ llm' = Put(b)
              /\ aiPanel' = [aiPanel EXCEPT !.row = Put(b), !.put = NoPut,
                               !.form.typed = IF b.key = "clear" THEN @ ELSE FALSE]
         ELSE /\ aiPanel' = [aiPanel EXCEPT !.put = NoPut] /\ UNCHANGED llm
      /\ UNCHANGED <<llmScene, chat>>

(* Others: an admin elsewhere, an API client that deletes the row, a       *)
(* restart with another master key, after which no key decrypts.           *)
SavedElsewhere == /\ Clicks("others")
                  /\ \E p \in Choices, k \in {"new", "keep", "clear"}, on \in BOOLEAN :
                       LET b == [provider |-> p, key |-> k, on |-> {on}]
                       IN  MayPut(b) /\ llm' = Put(b)
                  /\ UNCHANGED <<aiPanel, chat>>
DeleteConfig == Clicks("others") /\ llm' = NoLlmRow /\ UNCHANGED <<aiPanel, chat>>
NewMasterKey == /\ HasKey(llm) /\ Clicks("others")
                /\ llm' = [llm EXCEPT !.key = "lost"] /\ UNCHANGED <<aiPanel, chat>>

-----------------------------------------------------------------------------
(* A feature asks: without a provider that is on there is no AI; "manual"  *)
(* gives a prompt whose answer is pasted.                                  *)
Ask == /\ chat.at = "none" /\ Clicks("calls")
       /\ \E wants \in llmScene.wants :
            chat' = CASE llm = NoLlmRow \/ ~llm.on -> NoChat
                      [] OTHER -> IF llm.provider = "manual" THEN [at |-> "pasting"]
                                  ELSE [at |-> "named", wants |-> wants]
       /\ UNCHANGED <<llm, aiPanel>>
Paste == /\ chat.at = "pasting" /\ chat' = NoChat
         /\ UNCHANGED <<llmScene, llm, aiPanel>>

(* Gemini is told how much to think and never a seed; other providers know *)
(* no such effort.                                                         *)
FirstBody(provider, wants) ==
  CASE provider = "gemini"    -> {"effort"} \cup (wants \cap {"schema"})
    [] provider = "anthropic" -> {}
    [] OTHER                  -> wants \ {"effort"}
Failed(why) == [at |-> "failed", why |-> why]
LlmRequest(wants) == [at |-> "asking", to |-> llm.provider, wants |-> wants, try |-> 1,
                   body |-> FirstBody(llm.provider, wants), bundled |-> FALSE,
                   unschema |-> FALSE, troubles |-> 0]
Resolvable == llm # NoLlmRow /\ llm.key # "lost" /\ llm.provider # "manual"
(* chat(): the row as it is by now.                                        *)
Chat == /\ chat.at = "named"
        /\ chat' = IF Resolvable /\ llm.on THEN LlmRequest(chat.wants) ELSE Failed("config")
        /\ UNCHANGED <<llmScene, llm, aiPanel>>
(* "Test connection" calls what is saved, on or off.                       *)
Test == /\ chat.at = "none" /\ aiPanel.put = NoPut /\ aiPanel.form.provider # "manual"
        /\ Clicks("calls")
        /\ chat' = IF Resolvable THEN LlmRequest({}) ELSE Failed("config")
        /\ UNCHANGED <<llm, aiPanel>>

Again(c) == IF c.try = LlmAttempts THEN [at |-> "failed", why |-> "exhausted", troubles |-> c.troubles]
            ELSE [c EXCEPT !.try = @ + 1]
Sent(to) == chat.at = "asking" /\ chat.to \in to

EndpointAnswers == /\ Sent(Compat \cup {"anthropic"}) /\ ~llmScene.broken
           /\ chat.body \cap llmScene.unknown = {}
           /\ chat' = [at |-> "answered", wants |-> chat.wants, to |-> chat.to, body |-> chat.body,
                       applied |-> "schema" \in chat.wants /\ chat.to \in Compat /\ ~chat.unschema]
           /\ UNCHANGED <<llmScene, llm, aiPanel>>

(* A 4xx: the field it names goes, or once all of them.                    *)
Strip_All(c, fields) == [c EXCEPT !.body = {}, !.unschema = @ \/ "schema" \in c.body]
Strip(c, fields) == [c EXCEPT !.body = @ \ fields, !.unschema = @ \/ "schema" \in fields \cap c.body]
Refuses ==
  /\ Sent(Compat) /\ (llmScene.broken \/ chat.body \cap llmScene.unknown # {})
  /\ \/ \E f \in chat.body \cap llmScene.unknown : llmScene.names /\ chat' = Again(Strip(chat, {f}))
     \/ /\ ~llmScene.names \/ chat.body \cap llmScene.unknown = {}
        /\ chat' = IF chat.body # {} /\ ~chat.bundled
                   THEN Again([Strip(chat, OptionalFields) EXCEPT !.bundled = TRUE])
                   ELSE Failed("4xx")
  /\ UNCHANGED <<llmScene, llm, aiPanel>>
AnthropicFails == /\ Sent({"anthropic"}) /\ chat' = Failed("http")
                  /\ llmScene.broken /\ UNCHANGED <<llmScene, llm, aiPanel>>

(* 429 is tried once more, and only after the first request; 5xx and the   *)
(* network as long as there are attempts, if the wait fits the deadline.   *)
Trouble ==
  /\ chat.at = "asking" /\ Clicks("troubles")
  /\ \E kind \in {"throttled", "down"}, fits \in BOOLEAN :
       LET c == [chat EXCEPT !.troubles = @ + 1]
       IN  /\ ~fits => llmScene.deadline
           /\ chat' = IF /\ chat.to \in Compat /\ fits
                         /\ IF kind = "throttled" THEN c.try = 1 ELSE c.try < LlmAttempts
                      THEN Again(c) ELSE Failed("trouble")
  /\ UNCHANGED <<llm, aiPanel>>
TimesOut == /\ chat.at = "asking" /\ llmScene.deadline /\ chat' = Failed("timeout")
            /\ UNCHANGED <<llmScene, llm, aiPanel>>
Show == /\ chat.at \in {"answered", "failed"} /\ chat' = NoChat
        /\ UNCHANGED <<llmScene, llm, aiPanel>>

LlmNext == \/ FillIn \/ PressSave \/ PressClear \/ UpsertConfig
           \/ SavedElsewhere \/ DeleteConfig \/ NewMasterKey
           \/ Ask \/ Paste \/ Chat \/ Test
           \/ EndpointAnswers \/ Refuses \/ AnthropicFails \/ Trouble \/ TimesOut \/ Show
LlmSpec == LlmInit /\ [][LlmNext]_llmVars
-----------------------------------------------------------------------------
(* Whatever is saved here, elsewhere and in what order: a provider that    *)
(* needs a key has one (which it may not be able to decrypt).              *)
KeyedHasKey == llm # NoLlmRow /\ llm.provider \in Keyed => HasKey(llm)

(* What the caller is told of its schema is what was on the wire.  A field *)
(* that the endpoint refuses by name takes no other with it: a schema that *)
(* it accepts is sent until the answer.  And fields it refuses never make  *)
(* a call fail: that takes a bad key or model, a deadline, or two troubles *)
(* on the way.                                                             *)
SchemaTold == chat.at = "answered" =>
                chat.applied = ("schema" \in chat.body)
SchemaSurvives ==
  /\ chat.at \in {"asking", "answered"} /\ chat.to \in Compat /\ "schema" \in chat.wants
  /\ llmScene.names /\ ~llmScene.broken /\ "schema" \notin llmScene.unknown
  => "schema" \in chat.body
FieldsNeverFail ==
  /\ chat.at = "asking" => chat.try <= LlmAttempts
  /\ chat.at = "failed" /\ ~llmScene.broken =>
       /\ chat.why # "4xx"
       /\ chat.why = "exhausted" => chat.troubles >= 2

CallsKeepFaith == KeyedHasKey /\ SchemaTold /\ SchemaSurvives /\ FieldsNeverFail

(* Statements the code does not meet: Clear wipes the key; the key is one  *)
(* for the provider it is stored with; and fields it refuses do not make a *)
(* call fail that was in trouble.                                          *)
ClearWipes == [][UpsertConfig /\ aiPanel.put.key = "clear" => llm'.key = "none"]_llmVars
NeverExhausted == chat.at = "failed" => chat.why # "exhausted"
=============================================================================
