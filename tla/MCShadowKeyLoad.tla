-------------------------- MODULE MCShadowKeyLoad --------------------------
(***************************************************************************)
(* Instances of ShadowKeyLoad for TLC.                                     *)
(***************************************************************************)
EXTENDS ShadowKeyLoad

\* Keys without "|m".
PlainKeys == {Key("a", <<>>), Key("b", <<>>)}

\* A key that was emitted and set, and one that was only set.
PlainSetKeys == {Key("a", <<>>), Key("s", <<>>)}
=============================================================================
