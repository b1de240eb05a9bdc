-------------------------- MODULE MCProjectDocument --------------------------
(* Small instances of ProjectDocument.                                     *)
EXTENDS ProjectDocument, TLC

CONSTANTS a, b, dom, p, u

\* Two commands of one domain: one payload file for each checkpoint.
OneDomain  == a :> dom @@ b :> dom
OnePayload == <<dom>>

CommandSymmetry == Permutations({a, b})

=============================================================================
