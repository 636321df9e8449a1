--------------------------- MODULE ResearchPinned ---------------------------
(***************************************************************************)
(* The research campaigns whose runs compare the code they are made of with *)
(* the registration, step by step, in the order in which the code takes the *)
(* steps.  A campaign's scripts share its registration prereg.json, its out *)
(* directory and the one file of trial rows.  One file stands for the files *)
(* a command writes per instrument, timeframe or month in the same way.    *)
(* Files that no command writes (market data, prereg_body.json, the results *)
(* of another campaign) are taken as given.  Commands that only print are  *)
(* left out.                                                               *)
(***************************************************************************)
EXTENDS ResearchSteps

\* Lim13: Limit entries. register also reads the results of notrade12, another campaign's file.
Lim13Register == Refuse("prereg") \o Register
Lim13Amend == AmendBySwapping
Lim13Run == LoadPinned({"code", "digest"}) \o Trials \o Dump("results")
Lim13Null == LoadPinned({"code", "digest"}) \o Trials \o Dump("nullfix")
Lim13 == [register |-> Lim13Register, amend |-> Lim13Amend, run |-> Lim13Run, null |-> Lim13Null]

\* Nt12: No-trade filters.
Nt12Explore == Dump("explore")
Nt12Register == Refuse("prereg") \o Load("explore") \o Register
Nt12Amend == AmendBySwapping
Nt12Run == LoadPinned({"code", "digest"}) \o Trials \o Dump("results")
Nt12 == [explore |-> Nt12Explore, register |-> Nt12Register, amend |-> Nt12Amend, run |-> Nt12Run]

\* F316: Live-log filters.
F316Explore == Dump("explore")
F316Register == Refuse("prereg") \o Load("explore") \o Register
F316Run == LoadPinned({"code", "digest"}) \o Dump("signals") \o Trials \o Dump("results")
F316 == [explore |-> F316Explore, register |-> F316Register, run |-> F316Run]

\* Ablate4: Feature ablations; amend is a branch of register that overwrites code_sha256.
Ablate4Register == Refuse("prereg") \o Register
Ablate4Amend == AmendByReplacing
Ablate4Run == LoadPinned({"code", "digest"}) \o Trials \o Dump("results")
Ablate4 == [register |-> Ablate4Register, amend |-> Ablate4Amend, run |-> Ablate4Run]

\* Abs11: Absorbing days; the M30 bars and the stress table are kept once they are made.
Abs11Bars30 == Cache("bars", Dump("bars"))
Abs11StressTable == Cache("stress", Abs11Bars30 \o Dump("stress"))
Abs11Thresholds == Abs11Bars30 \o Dump("thresholds")
Abs11Amend == AmendByAppending
Abs11Register == Refuse("prereg") \o Load("thresholds") \o Register
Abs11Evaluates == Trials
Abs11Run ==
  LoadPinned({"code"}) \o Abs11StressTable \o Abs11Bars30 \o Abs11Evaluates
  \o Perhaps(Dump("artifact") \o Dump("parity")) \o Dump("results")
Abs11 == [thresholds |-> Abs11Thresholds, register |-> Abs11Register, amend |-> Abs11Amend, run |-> Abs11Run]

\* Abs48: abs11 at other horizons; its registration was written by hand.
Abs48Register == Refuse("prereg") \o Register
Abs48Run == LoadPinned({"code"}) \o Trials \o Dump("results")
Abs48 == [register |-> Abs48Register, run |-> Abs48Run]

\* Alert7: Move alerts; the artifact and its parity fixture are written before the results.
Alert7Amend == AmendByAppending
Alert7Register == Refuse("prereg") \o Register
Alert7Run == LoadPinned({"code", "digest"}) \o Trials \o Dump("artifact") \o Dump("parity") \o Dump("results")
Alert7 == [register |-> Alert7Register, amend |-> Alert7Amend, run |-> Alert7Run]

\* Bench1: Sequence-model benchmark: planted controls, one line per seed, then the real data,
\* which no code asks the registration about.
Bench1Register == Refuse("prereg") \o HashNow \o Register
Bench1Amend == HashNow \o AmendByReplacing
Bench1Controls ==
  LoadPinned({"code", "digest"}) \o TodoOrEnd("controls", {"one", "two"})
  \o AppendTodo("controls", {"one"}) \o AppendTodo("controls", {"two"})
Bench1Real == Trials \o Dump("results")
Bench1Summarize == LoadIfThere("results") \o Dump("report")
Bench1 == [register |-> Bench1Register, amend |-> Bench1Amend, controls |-> Bench1Controls,
           real |-> Bench1Real, summarize |-> Bench1Summarize]

\* Dt14: Day types: build and run are both pinned, so that what run pools was built by
\* registered code.
Dt14Thresholds == Dump("thresholds")
Dt14Amend == AmendByAppending
Dt14Register == Refuse("prereg") \o Load("thresholds") \o Register
Dt14Build == LoadPinned({"code"}) \o Dump("days") \o Dump("trades")
Dt14Classify == Append1("trials", "one")
Dt14Policies == Append1("trials", "two")
Dt14Run ==
  LoadPinned({"code"}) \o Load("days") \o Load("trades") \o Dt14Classify \o Dump("pooled") \o Dt14Policies
  \o Dump("results")
Dt14 == [thresholds |-> Dt14Thresholds, register |-> Dt14Register, amend |-> Dt14Amend, build |-> Dt14Build,
         run |-> Dt14Run]

\* Fm2: Foundation-model scores: exported rows, inferred scores, then an evaluation that
\* compares the script as it is on disk.
Fm2Export == Dump("p3")
Fm2Infer == Load("p3") \o Load("prereg") \o Dump("fm")
Fm2Embed == Load("p3") \o Load("fm") \o Dump("emb")
Fm2Knn == Load("p3") \o Load("fm") \o Load("emb") \o Dump("knn")
Fm2KnnAbst == Load("p3") \o Load("knn") \o Dump("abst")
Fm2Amend == HashNow \o AmendByReplacing
Fm2Register == Refuse("prereg") \o HashNow \o Register
Fm2Evaluate == LoadPinned({"now"}) \o LoadIfThere("fm") \o LoadIfThere("knn") \o Trials \o Dump("results")
Fm2 == [export |-> Fm2Export, infer |-> Fm2Infer, embed |-> Fm2Embed, knn |-> Fm2Knn, abst |-> Fm2KnnAbst,
        register |-> Fm2Register, amend |-> Fm2Amend, evaluate |-> Fm2Evaluate]

\* Lean21: Lean calls; today reads no registration.
Lean21Register == Refuse("prereg") \o Register
Lean21Analyse == Trials
Lean21Run == LoadPinned({"code", "digest"}) \o Lean21Analyse \o Dump("results")
Lean21Today == Dump("today")
Lean21 == [register |-> Lean21Register, run |-> Lean21Run, today |-> Lean21Today]

\* Lean22: Lean track record: each cell compares the script on disk with the registration and
\* with the one amendment, which was written by hand.
Lean22Register == Refuse("prereg") \o Register
Lean22Amend == AmendByAppending
Lean22Cell == LoadPinned({"named"}) \o Dump("cell") \o Dump("cellmeta")
Lean22Report ==
  Load("prereg") \o Load("cell") \o Load("cellmeta") \o Dump("record") \o Dump("full") \o Dump("report")
Lean22 == [register |-> Lean22Register, amend |-> Lean22Amend, cell |-> Lean22Cell, report |-> Lean22Report]

\* Legs27: Swing legs: only run is pinned, build is not.
Legs27Build == Dump("table")
Legs27CheckReg == LoadPinned({"code"})
Legs27Run == Legs27CheckReg \o Load("table") \o Trials \o Dump("results")
Legs27Amend == AmendByAppending
Legs27Register == Refuse("prereg") \o Register
Legs27 == [build |-> Legs27Build, register |-> Legs27Register, amend |-> Legs27Amend, run |-> Legs27Run]

\* Mw6: Moving-window rules; the registration quotes the coverage file.
Mw6Coverage == Dump("coverage")
Mw6Amend == AmendByReplacing
Mw6Register == Refuse("prereg") \o Load("coverage") \o Register
Mw6Run == LoadPinned({"code", "digest"}) \o Trials \o Dump("results")
Mw6 == [coverage |-> Mw6Coverage, register |-> Mw6Register, amend |-> Mw6Amend, run |-> Mw6Run]

\* Orb15: Opening ranges: build and run are both pinned.
Orb15CheckReg == LoadPinned({"code"})
Orb15Build == Orb15CheckReg \o Dump("events")
Orb15Run == Orb15CheckReg \o Load("events") \o Trials \o Dump("results")
Orb15Amend == AmendByAppending
Orb15Register == Refuse("prereg") \o Register
Orb15 == [build |-> Orb15Build, register |-> Orb15Register, amend |-> Orb15Amend, run |-> Orb15Run]

\* Pp20: Probability of profit: an artifact for the cells that passed, and for the parity
\* fixture of those that did not.
Pp20Register == Refuse("prereg") \o Register
Pp20Run ==
  LoadPinned({"digest"}) \o Perhaps(Dump("artifact"))
  \o Perhaps(Dump("parity") \o Perhaps(Dump("artifact"))) \o Dump("results") \o Trials
Pp20Backfill == Load("artifact") \o Dump("artifact")
Pp20Diag == Load("results") \o Load("artifact") \o Load("parity") \o Dump("diag")
Pp20Summarize == Load("diag") \o Load("results") \o Dump("report")
Pp20CardRule == Load("artifact") \o Dump("card")
Pp20GridA4 == LoadIfThere("results") \o LoadIfThere("artifact") \o Dump("horizons")
Pp20 == [register |-> Pp20Register, run |-> Pp20Run, backfill |-> Pp20Backfill, diag |-> Pp20Diag,
         summarize |-> Pp20Summarize, card |-> Pp20CardRule, grid |-> Pp20GridA4]

\* Risk8: Risk overlays; refit is pinned to the script alone.
Risk8Amend == AmendByReplacing
Risk8Register == Refuse("prereg") \o Register
Risk8Reports == Trials
Risk8Run == LoadPinned({"code", "digest"}) \o Risk8Reports \o Dump("overlay")
Risk8Refit == LoadPinned({"code"}) \o Append1("trials", "more") \o Dump("refit")
Risk8 == [register |-> Risk8Register, amend |-> Risk8Amend, run |-> Risk8Run, refit |-> Risk8Refit]

\* Season17: Seasonality: build and run are both pinned.
Season17CheckReg == LoadPinned({"code"})
Season17Build == Season17CheckReg \o Dump("trades")
Season17Run ==
  Season17CheckReg \o Load("trades") \o Append1("trials", "one") \o Dump("scan")
  \o Append1("trials", "two") \o Dump("results")
Season17Amend == AmendByAppending
Season17Register == Refuse("prereg") \o Register
Season17 == [build |-> Season17Build, register |-> Season17Register, amend |-> Season17Amend,
             run |-> Season17Run]

\* Sess25: Session opens: only run is pinned, build is not.
Sess25Build == Dump("events")
Sess25CheckReg == LoadPinned({"code"})
Sess25Run == Sess25CheckReg \o Load("events") \o Trials \o Dump("results") \o Dump("baserates")
Sess25Amend == AmendByAppending
Sess25Register == Refuse("prereg") \o Register
Sess25 == [build |-> Sess25Build, register |-> Sess25Register, amend |-> Sess25Amend, run |-> Sess25Run]

\* Wave23: Wave forecasts; today reads no registration.
Wave23Register == Refuse("prereg") \o Register
Wave23Run == LoadPinned({"code", "digest"}) \o Trials \o Dump("results")
Wave23Today == Dump("today")
Wave23 == [register |-> Wave23Register, run |-> Wave23Run, today |-> Wave23Today]

\* Xvol9: Cross-volatility alerts on prepared bars.
Xvol9Prep == Dump("bars")
Xvol9Register == Refuse("prereg") \o Register
Xvol9Run == LoadPinned({"code", "digest"}) \o Load("bars") \o Trials \o Dump("results")
Xvol9 == [prep |-> Xvol9Prep, register |-> Xvol9Register, run |-> Xvol9Run]

\* Xvol10: The go/no-go on one-minute bars, pinned to the script alone.
Xvol10Register == Refuse("prereg") \o Register
Xvol10Run == LoadPinned({"code"}) \o Trials \o Dump("results")
Xvol10Summarize == Load("results") \o Dump("report")
Xvol10 == [register |-> Xvol10Register, run |-> Xvol10Run, summarize |-> Xvol10Summarize]
=============================================================================
