------------------------ MODULE MCExtractionPipeline ------------------------
(* Small instances of ExtractionPipeline. *)
EXTENDS ExtractionPipeline

Quiet  == {{}}
Stormy == {{}, Mishaps}
=============================================================================
