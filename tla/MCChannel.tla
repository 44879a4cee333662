----------------------------- MODULE MCChannel -----------------------------
(* Instances of Channel for TLC: who sends through which Sender.           *)
EXTENDS Channel, TLC

CONSTANTS p1, p2, h1, h2, h3, c1

\* One task per Sender, which is how each caller in the repository uses it.
OwnHandle == p1 :> h1 @@ p2 :> h2

\* Two tasks that share one Sender: send takes &self, so nothing forbids it.
SharedHandle == p1 :> h1 @@ p2 :> h1
=============================================================================
