------------------------------ MODULE MCAvatar ------------------------------
(* Instances of Avatar for TLC.                                             *)
EXTENDS Avatar, TLC

CONSTANTS alice, r1, r2, png, jpeg, t1, t2

OneUser == {alice}
TwoRequests == {r1, r2}
TwoExts == {png, jpeg}
TwoTexts == {t1, t2}
OneText == {t1}

\* Nothing distinguishes requests, extensions or texts.
Symmetry ==
  Permutations(TwoRequests) \cup Permutations(TwoExts)
    \cup Permutations(TwoTexts)
=============================================================================
