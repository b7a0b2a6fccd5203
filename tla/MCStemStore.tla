----------------------------- MODULE MCStemStore -----------------------------
(* Small instances of StemStore: who declares which stems. *)
EXTENDS StemStore, TLC

CONSTANTS a, b, s1, s2, s3

\* Both tabs want the same stem, one of them a second one as well.
WantsShared == a :> {s1, s2} @@ b :> {s1}
\* Both tabs want one stem.
WantsSame == a :> {s1} @@ b :> {s1}
\* The tabs want different stems and only fit by evicting each other's cache.
WantsApart == a :> {s1} @@ b :> {s2}
=============================================================================
