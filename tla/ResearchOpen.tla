---------------------------- MODULE ResearchOpen ----------------------------
(***************************************************************************)
(* The campaigns whose runs do not ask what the registration names, or     *)
(* that have none, and the two engines that freeze variants and score them *)
(* once; see ResearchPinned for what is left out.                          *)
(***************************************************************************)
EXTENDS ResearchSteps

\* Cal37: Calendar effects: results first, trial rows after.
Cal37Describe == Dump("describe")
Cal37Register == Refuse("prereg") \o HashNow \o Register
Cal37Run == Dump("results") \o Trials
Cal37 == [describe |-> Cal37Describe, register |-> Cal37Register, run |-> Cal37Run]

\* Cmd41: Commodity carry on bought data: the download is written beside its place and moved
\* there, and is never made again.
Cmd41Quote == Append1("costs", "quote")
Cmd41Fetch == Refuse("raw") \o Publish("raw") \o Dump("symbology") \o Append1("costs", "paid")
Cmd41Describe == Load("raw") \o Dump("describe")
Cmd41Register == Refuse("prereg") \o HashNow \o Register
Cmd41Run == Require("prereg") \o Load("raw") \o Dump("results") \o Trials
Cmd41 == [quote |-> Cmd41Quote, fetch |-> Cmd41Fetch, describe |-> Cmd41Describe, register |-> Cmd41Register,
          run |-> Cmd41Run]

\* Ext39: Extreme days.
Ext39Describe == Dump("describe")
Ext39Register == Refuse("prereg") \o HashNow \o Register
Ext39Run == Require("prereg") \o Dump("results") \o Trials
Ext39 == [describe |-> Ext39Describe, register |-> Ext39Register, run |-> Ext39Run]

\* Fade31: Fading the first fast bar; "plumb" runs the same loop without outcomes and stops
\* before the verdict.
Fade31Amend == Load("prereg") \o HashNow \o Written("prereg", "append")
Fade31Register == Refuse("prereg") \o HashNow \o Register
Fade31Plumb == Dump("partial") \o Dump("plumb")
Fade31Run ==
  Append1("trials", "one") \o Dump("partial") \o Append1("trials", "two") \o HashNow \o Dump("results")
Fade31 == [register |-> Fade31Register, amend |-> Fade31Amend, plumb |-> Fade31Plumb, run |-> Fade31Run]

\* Fd30: Flip days: per-instrument tables, built with the X-rescan's days where they are there.
Fd30A1 == Dump("a1")
Fd30Build == LoadIfThere("a1") \o Dump("table")
Fd30Amend == HashNow \o AmendByAppending
Fd30Register == Refuse("prereg") \o HashNow \o Register
Fd30Run == Load("table") \o Trials \o Dump("results")
Fd30 == [a1 |-> Fd30A1, build |-> Fd30Build, register |-> Fd30Register, amend |-> Fd30Amend, run |-> Fd30Run]

\* Fd32: Flip density.
Fd32Build == Dump("table")
Fd32Amend == HashNow \o AmendByAppending
Fd32Register == Refuse("prereg") \o HashNow \o Register
Fd32Run == Load("table") \o Trials \o Dump("results")
Fd32 == [build |-> Fd32Build, register |-> Fd32Register, amend |-> Fd32Amend, run |-> Fd32Run]

\* Flow29: Order flow on bought trades: one file per chunk, then one bar file, then the run.
Flow29Quote == Append1("costs", "quote")
Flow29Fetch == Unless("raw", Publish("raw") \o Append1("costs", "paid"))
Flow29Bars == Load("raw") \o Dump("bars") \o Dump("summary")
Flow29Run == Load("bars") \o Dump("results") \o Trials
Flow29 == [quote |-> Flow29Quote, fetch |-> Flow29Fetch, bars |-> Flow29Bars, run |-> Flow29Run]

\* Flow42: The repeat on a second year: it runs flow29's run into its own directory, moves the
\* results aside and then writes its own.
Flow42Fetch == Append1("costs", "quote") \o Perhaps(Unless("raw", Publish("raw") \o Append1("costs", "paid")))
Flow42Bars == Load("raw") \o Dump("bars") \o Dump("summary")
Flow42Repeat == Load("bars") \o Dump("results") \o Trials \o Move("results", "repeat") \o Load("repeat")
Flow42Run == Flow42Repeat \o Dump("results") \o Append1("trials", "more")
Flow42 == [fetch |-> Flow42Fetch, bars |-> Flow42Bars, run |-> Flow42Run]

\* Imom34: Intraday momentum.
Imom34Counts == Dump("counts")
Imom34Amend == Load("prereg") \o HashNow \o Written("prereg", "append")
Imom34Register == Refuse("prereg") \o HashNow \o Register
Imom34Run == Trials \o Dump("results")
Imom34 == [counts |-> Imom34Counts, register |-> Imom34Register, amend |-> Imom34Amend, run |-> Imom34Run]

\* Lead35: Leads and lags.
Lead35Counts == Dump("counts")
Lead35Amend == Load("prereg") \o HashNow \o Written("prereg", "append")
Lead35Register == Refuse("prereg") \o HashNow \o Register
Lead35Run == Trials \o Dump("results")
Lead35 == [counts |-> Lead35Counts, register |-> Lead35Register, amend |-> Lead35Amend, run |-> Lead35Run]

\* Night38: Overnight returns; posthoc runs the same code into a directory of its own.
Night38Counts == Dump("counts")
Night38Amend == Load("prereg") \o HashNow \o Written("prereg", "append")
Night38Register == Refuse("prereg") \o HashNow \o Register
Night38Report == Dump("report")
Night38Run == Trials \o Dump("results") \o Night38Report
Night38Posthoc == Append1("trials", "more") \o Dump("posthoc") \o Dump("posthocreport")
Night38 == [counts |-> Night38Counts, register |-> Night38Register, amend |-> Night38Amend,
            run |-> Night38Run, posthoc |-> Night38Posthoc]

\* Pairs16: Pairs: run does not ask the registration.
Pairs16Register == Refuse("prereg") \o Register
Pairs16Amend == AmendByAppending
Pairs16Run == Trials \o Dump("results")
Pairs16Explore == Append1("trials", "more") \o Dump("explore")
Pairs16 == [register |-> Pairs16Register, amend |-> Pairs16Amend, run |-> Pairs16Run,
            explore |-> Pairs16Explore]

\* Rescan26: Re-scoring of recomputed trades; its trial rows are a command of their own.
Rescan26Recompute == Dump("trades")
Rescan26Stored == Dump("trades")
Rescan26Stats == Load("trades") \o Dump("report") \o Dump("results")
Rescan26LogTrials == Load("results") \o Trials
Rescan26 == [recompute |-> Rescan26Recompute, stored |-> Rescan26Stored, stats |-> Rescan26Stats,
             log |-> Rescan26LogTrials]

\* Roll47: Rollover hours, without a registration file of its own.
Roll47LoadM1 == Unless("bars", Dump("bars")) \o Load("bars")
Roll47Counts == Roll47LoadM1 \o Dump("counts")
Roll47Run == HashNow \o Roll47LoadM1 \o Trials \o Dump("cells") \o Dump("verdict")
Roll47 == [counts |-> Roll47Counts, run |-> Roll47Run]

\* Scan46: A scan that freezes finalists, and the locked windows that they may see once.
Scan46LoadM1 == Unless("bars", Dump("bars")) \o Load("bars")
Scan46Describe == Scan46LoadM1 \o Dump("describe")
Scan46Register == Refuse("prereg") \o HashNow \o Register
Scan46Run ==
  Require("prereg") \o LoadPinned({"now"}) \o Scan46LoadM1 \o Dump("cells") \o Dump("cells") \o Trials
  \o Dump("finalists")
Scan46Locked ==
  Load("finalists") \o Refuse("locked") \o Scan46LoadM1 \o Look("finalists") \o Dump("locked")
  \o Append1("trials", "more")
Scan46Posthoc == Load("cells") \o Dump("posthoc")
Scan46 == [describe |-> Scan46Describe, register |-> Scan46Register, run |-> Scan46Run,
           locked |-> Scan46Locked, posthoc |-> Scan46Posthoc]

\* Swing43: Swing set-ups on daily bars.
Swing43Describe == Dump("describe")
Swing43Register == Refuse("prereg") \o HashNow \o Register
Swing43Run == Require("prereg") \o HashNow \o Dump("trades") \o Dump("results") \o Trials
Swing43 == [describe |-> Swing43Describe, register |-> Swing43Register, run |-> Swing43Run]

\* Swing44: The same on other indices.
Swing44Describe == Dump("describe")
Swing44Register == Refuse("prereg") \o HashNow \o Register
Swing44Run == Require("prereg") \o Dump("trades") \o Dump("results") \o Trials
Swing44 == [describe |-> Swing44Describe, register |-> Swing44Register, run |-> Swing44Run]

\* Swing45: The same on intraday bars.
Swing45LoadM1 == Unless("bars", Dump("bars")) \o Load("bars")
Swing45Describe == Swing45LoadM1 \o Dump("describe")
Swing45Register == Refuse("prereg") \o HashNow \o Register
Swing45Run == Require("prereg") \o Swing45LoadM1 \o Dump("trades") \o Dump("results") \o Trials
Swing45 == [describe |-> Swing45Describe, register |-> Swing45Register, run |-> Swing45Run]

\* Trend49: Trend episodes, their amended table, and the leveraged account, which has an
\* amendment file of its own that nothing may overwrite.
Trend49Register == Refuse("prereg") \o HashNow \o Register
Trend49Run == Dump("results") \o Dump("tables") \o Trials
Trend49Amended == Dump("episodes") \o Dump("episodestable")
Trend49LevRegister == Refuse("amendment2") \o HashNow \o Dump("amendment2")
Trend49LevRun == Load("episodes") \o Dump("lev") \o Append1("trials", "more") \o Dump("levtables")
Trend49 == [register |-> Trend49Register, run |-> Trend49Run, amended |-> Trend49Amended,
            levregister |-> Trend49LevRegister, levrun |-> Trend49LevRun]

\* Tsmom36: Time-series momentum.
Tsmom36Spreads == Cache("spreads", Dump("spreads"))
Tsmom36Describe == Tsmom36Spreads \o Dump("describe")
Tsmom36Register == Refuse("prereg") \o HashNow \o Register
Tsmom36Run == Tsmom36Spreads \o Dump("daily") \o Dump("results") \o Trials
Tsmom36 == [describe |-> Tsmom36Describe, register |-> Tsmom36Register, run |-> Tsmom36Run]

\* Vm40: Volatility management.
Vm40Register == Refuse("prereg") \o HashNow \o Register
Vm40Run == HashNow \o Dump("results") \o Trials
Vm40Posthoc == Load("results") \o Dump("posthoc")
Vm40LogTrials == Load("posthoc") \o Append1("trials", "more")
Vm40 == [register |-> Vm40Register, run |-> Vm40Run, posthoc |-> Vm40Posthoc, log |-> Vm40LogTrials]

\* Vol33: Volume shocks; features are kept once they are made, "plumb" stops before any
\* outcome.
Vol33Feats == Cache("feats", Dump("feats"))
Vol33Plumb == Vol33Feats \o Dump("plumb")
Vol33Run == Vol33Feats \o Trials \o HashNow \o Dump("results")
Vol33Amend == Load("prereg") \o HashNow \o Written("prereg", "append")
Vol33Register == Refuse("prereg") \o HashNow \o Register
Vol33 == [plumb |-> Vol33Plumb, run |-> Vol33Run, register |-> Vol33Register, amend |-> Vol33Amend]

\* News24: News around flips: prepared bars, the list of news files that are needed, the files
\* (one commit each, under a file lock), then the run.
News24Prep == Dump("bars")
News24Count == Load("bars") \o Dump("needed")
News24Fetch ==
  Todo("files", {"one", "two"}) \o Load("needed") \o AppendTodo("files", {"one"})
  \o AppendTodo("files", {"two"})
News24Run == HashNow \o Load("bars") \o Trials \o Dump("results")
News24 == [prep |-> News24Prep, count |-> News24Count, fetch |-> News24Fetch, run |-> News24Run]

\* News28: Labels of a sample of news rows: the sample is drawn once, each row is labelled
\* once, and a rule is fitted to the labels.
News28Sample == Refuse("sample") \o Publish("sample")
News28Label ==
  Load("sample") \o Todo("labels", {"one", "two"}) \o AppendTodo("labels", {"one"})
  \o AppendTodo("labels", {"two"})
News28Junk == Load("sample") \o Dump("junk")
News28UrlStats == Dump("urlstats")
News28Rule == Load("sample") \o Perhaps(Dump("rules")) \o Load("rules") \o Dump("eval")
News28 == [sample |-> News28Sample, label |-> News28Label, junk |-> News28Junk, urlstats |-> News28UrlStats,
           rule |-> News28Rule]

\* V1: Audit of the first evaluator: planted controls, one line per seed, and reports.
V1Controls ==
  Unless("registry", Dump("registry")) \o Load("registry") \o Todo("controls", {"one", "two"})
  \o AppendTodo("controls", {"one"}) \o AppendTodo("controls", {"two"})
V1Power == Dump("power")
V1Layers == Dump("layers")
V1CalibTrace == Dump("calibration")
V1Lineage == Dump("lineage")
V1Ambiguity == Dump("ambiguity")
V1 == [controls |-> V1Controls, power |-> V1Power, layers |-> V1Layers, trace |-> V1CalibTrace,
       lineage |-> V1Lineage, ambiguity |-> V1Ambiguity]

\* V2: Audit of the second evaluator: its controls choose the variant that the evaluator then
\* uses.
V2Amend == Load("prereg") \o HashNow \o Written("prereg", "replace")
V2Register == Refuse("prereg") \o HashNow \o Register
V2Controls ==
  LoadPinned({"code", "digest"}) \o TodoOrEnd("controls", {"one", "two"})
  \o AppendTodo("controls", {"one"}) \o AppendTodo("controls", {"two"})
V2Power == Dump("power") \o Load("prereg") \o Perhaps(Dump("selected"))
V2Correct == Dump("corrections")
V2 == [register |-> V2Register, amend |-> V2Amend, controls |-> V2Controls, power |-> V2Power,
       correct |-> V2Correct]

\* Ladder: The ladder A, B, C: dev freezes the three variants, final scores each of them once
\* on the held-out years.
LadderBuild == Unless("bars", Dump("bars")) \o Load("bars")
LadderDev == LadderBuild \o Trials \o Dump("frozen") \o Dump("dev")
LadderFinal ==
  Load("frozen") \o TodoOrEnd("ledger", {"baseline", "B", "C"}) \o AppendTodo("ledger", {"baseline"})
  \o AppendTodo("ledger", {"B"}) \o AppendTodo("ledger", {"C"}) \o LadderBuild \o Look("baseline")
  \o LookTodo("B") \o LookTodo("C") \o Dump("results")
Ladder == [dev |-> LadderDev, final |-> LadderFinal]

\* De: D and E: dev freezes an instrument's policies into the one file that holds them all,
\* final scores them once.
DePrefetch == Unless("bars", Dump("bars")) \o Load("bars")
DeDev == DePrefetch \o Trials \o LoadIfThere("frozen") \o Dump("frozen") \o Dump("dev")
DeFinal ==
  Load("frozen") \o TodoOrEnd("ledger", {"D", "E"}) \o AppendTodo("ledger", {"D", "E"}) \o DePrefetch
  \o Look("D") \o LookTodo("E") \o Dump("results")
De == [dev |-> DeDev, final |-> DeFinal]
=============================================================================
