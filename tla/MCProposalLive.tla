--------------------------- MODULE MCProposalLive ---------------------------
(* The proposal with one request at a time, its Gamma jobs and the poller,  *)
(* the site-enumeration job with its workers, and the proposal workspace    *)
(* with the library of decks: one of them per behaviour.                    *)
EXTENDS ProposalDelivery, SiteEnum, ProposalStudio

CONSTANTS c2, s1, s2  \* a rate card and two sites

VARIABLE job
liveVars == <<vars, enumVars, studioVars, job>>

LiveWorlds == {Handlers}

(* A rep or two at the workspace, and what else goes on beside them.       *)
AtDesk(roles, provider, drafter, may, n) ==
  [roles |-> roles, provider |-> provider, drafter |-> drafter, may |-> may, touches |-> n]
Plain == AtDesk(<<"sales_employee">>, "manual", "llm", {}, 4)
LiveDesks == {AtDesk(<<"admin">>, "auto", "gamma", {"curate"}, 3),
              AtDesk(<<"admin">>, "manual", "gamma", {"configure"}, 3), Plain,
              AtDesk(<<"admin", "sales_manager">>, "auto", "gamma", {}, 2),
              AtDesk(<<"sales_manager", "sales_employee">>, "auto", "llm", {}, 2),
              AtDesk(<<"tech_team">>, "none", "gamma", {"lapse"}, 2)}

LiveInit == /\ Init /\ EnumInit /\ StudioInit
            /\ job \in {"proposal", "enumeration", "workspace"}
            /\ job # "proposal" => status = "approved"
            /\ job # "workspace" => scene = Plain /\ made = 0 /\ library = [d \in Decks |-> InLibrary]

LiveNext ==
  \/ job = "proposal" /\ Next /\ UNCHANGED <<enumVars, studioVars, job>>
  \/ job = "enumeration" /\ EnumNext /\ UNCHANGED <<vars, studioVars, job>>
  \/ job = "workspace" /\ StudioNext /\ UNCHANGED <<vars, enumVars, job>>

(* A draft in the making comes to an end, in the row and on the page.      *)
DraftsSettle == DraftingEnds /\ PageSettles

ProposalAndEnumeration ==
  /\ LiveInit /\ [][LiveNext]_liveVars
  /\ Fairness /\ GammaFairness /\ EnumFairness /\ StudioFairness
=============================================================================
