------------------------ MODULE MCRenderPublication ------------------------
(* One loop region for RenderPublication.                                  *)
EXTENDS RenderPublication

CONSTANTS verse
=============================================================================
