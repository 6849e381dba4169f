----------------------------- MODULE MCImageExec ------------------------------
(* One base image, and two images provisioned from it at the same time. *)
EXTENDS ImageExec

CONSTANTS base, plain, faulty

OneBase == {base}
TwoImages == {plain, faulty}
SomeFaulty == {base, faulty}

==============================================================================
