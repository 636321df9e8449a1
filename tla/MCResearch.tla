----------------------------- MODULE MCResearch -----------------------------
EXTENDS Research, ResearchPinned, ResearchOpen

\* Every campaign, but one of each pair with the same steps: imom34 stands for
\* lead35 and lean21 for wave23.
MCAll ==
  [lim13 |-> Lim13, nt12 |-> Nt12, f316 |-> F316, ablate4 |-> Ablate4, abs11 |-> Abs11, abs48 |-> Abs48,
   alert7 |-> Alert7, bench1 |-> Bench1, cal37 |-> Cal37, cmd41 |-> Cmd41, dt14 |-> Dt14, ext39 |-> Ext39,
   fade31 |-> Fade31, fd30 |-> Fd30, fd32 |-> Fd32, flow29 |-> Flow29, flow42 |-> Flow42, fm2 |-> Fm2,
   imom34 |-> Imom34, lean21 |-> Lean21, lean22 |-> Lean22, legs27 |-> Legs27,
   mw6 |-> Mw6, night38 |-> Night38, orb15 |-> Orb15, pairs16 |-> Pairs16, pp20 |-> Pp20,
   rescan26 |-> Rescan26, risk8 |-> Risk8, roll47 |-> Roll47, scan46 |-> Scan46, season17 |-> Season17,
   sess25 |-> Sess25, swing43 |-> Swing43, swing44 |-> Swing44, swing45 |-> Swing45, trend49 |-> Trend49,
   tsmom36 |-> Tsmom36, vm40 |-> Vm40, vol33 |-> Vol33, xvol9 |-> Xvol9,
   xvol10 |-> Xvol10, news24 |-> News24, news28 |-> News28, v1 |-> V1, v2 |-> V2, ladder |-> Ladder,
   de |-> De]

\* More commands where the properties take more of them: an amendment, a build
\* or a second freeze between a registration and a run.
Deep == {"lim13", "abs11", "dt14", "orb15", "legs27", "lean22"}
Checked == PinsCode \cup PinsDigest \cup PinsButReplaces \cup {"bench1", "scan46", "v2", "ladder", "de", "news28"}
MCAllStarts == [c \in DOMAIN MCAll |-> IF c \in Deep THEN 4 ELSE IF c \in Checked THEN 3 ELSE 2]

MCScan == [scan46 |-> Scan46]
MCScanStarts == [scan46 |-> 4]
=============================================================================
