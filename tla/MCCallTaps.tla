----------------------------- MODULE MCCallTaps -----------------------------
\* An instance of CallTaps for TLC: two samples make a millisecond, frames of 4 samples,
\* two digits, a tone that needs the higher gain and one that is too unequal.
EXTENDS CallTaps

F(n, rms, low, lowMag, highMag) ==
  [samples |-> n, odd |-> FALSE, rms |-> rms, low |-> low, lowMag |-> lowMag,
   high |-> 1, highMag |-> highMag]

MCFrames ==
  [incoming |-> {F(4, 0, 1, 0, 0), F(0, 0, 1, 0, 0), [F(4, 2, 1, 2, 2) EXCEPT !.odd = TRUE],
                 F(4, 1, 1, 1, 1), F(4, 2, 2, 2, 2), F(4, 2, 1, 4, 1)},
   outgoing |-> {F(4, 0, 1, 0, 0), F(4, 1, 1, 1, 1)}]

MCGains == {1, 2}

MCDials ==
  {[digits |-> s, toneMs |-> 4, gapMs |-> 1, level |-> 1] :
     s \in {<<<<1, 1>>, <<1, 1>>>>, <<<<2, 1>>, <<9, 9>>, <<1, 1>>>>}}
=============================================================================
