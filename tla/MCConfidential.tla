---------------------------- MODULE MCConfidential ----------------------------
(***************************************************************************)
(* The instance of Confidential.cfg: two images of one reference and a     *)
(* worker outside Confidential Space; a client that names a digest and one *)
(* that takes any image of the reference.                                  *)
(***************************************************************************)
EXTENDS Confidential

CONSTANTS c1, c2

Image(os, digest) == [os |-> os, reference |-> "worker", digest |-> digest]

Old == Image(CONFIDENTIAL_SPACE, "old")
New == Image(CONFIDENTIAL_SPACE, "new")

\* An upgrade, a restart of the same image, and a worker that is started again
\* outside Confidential Space.
MCDeployments == {<<Old, New>>, <<New, New>>, <<New, Image("linux", "new")>>}

MCProvenance ==
  [c \in Clients |-> IF c = c1 THEN [reference |-> "", digest |-> "new"]
                     ELSE [reference |-> "worker", digest |-> ""]]
===============================================================================
