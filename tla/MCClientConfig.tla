--------------------------- MODULE MCClientConfig ---------------------------
(***************************************************************************)
(* Instances of ClientConfig: threads for one service, or two for two.     *)
(***************************************************************************)
EXTENDS ClientConfig, TLC

OneService == [t \in Threads |-> "imap"]

TwoServices == "t1" :> "imap" @@ "t2" :> "smtp"

\* Two directories, with any file or none in the first and, when there is
\* none, in the second.
AllLayouts ==
  {l \in [1 .. 2 -> [{"imap"} -> Kinds]] :
     l[1]["imap"] = "missing" \/ l[2]["imap"] = "claim"}

\* A file for each of the two services.
BothFiles == {<<[s \in {"imap", "smtp"} |-> "claim"]>>}
=============================================================================
