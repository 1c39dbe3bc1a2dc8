----------------------------- MODULE MCSessions -----------------------------
(* Small instances of Sessions for TLC.                                    *)
EXTENDS Sessions, TLC

CONSTANTS s1, s2

(* Agent and client have the same token, different ones, or one has none.  *)
MCLaunch ==
    {[secret |-> "t", holds |-> s1 :> "t" @@ s2 :> h] : h \in {"u", "t", NoToken}}
      \cup {[secret |-> NoToken, holds |-> s1 :> NoToken @@ s2 :> "t"]}
=============================================================================
