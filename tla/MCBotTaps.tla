----------------------------- MODULE MCBotTaps -----------------------------
(* Instances of BotTaps for TLC. *)
EXTENDS BotTaps, TLC

MCGrants == {[NoSession EXCEPT !.exists = TRUE, !.rules = {Router}, !.maxValuePerCall = 1,
                               !.totalValueCap = 2, !.expiry = MAX_TIME]}

\* The button that sells half.
MCPercent == [u \in Taps |-> 50]

MCSymmetry == Permutations(Requests) \union Permutations(Taps)

=============================================================================
