---------------------------- MODULE MCPaperBook ----------------------------
EXTENDS PaperBook

Bar(o, h, l, c) == [open |-> o, high |-> h, low |-> l, close |-> c]
MCBars == {Bar(2, 4, 2, 4), Bar(4, 4, 2, 2), Bar(2, 2, 1, 2)}
MCInstrument == [b \in Bots |-> "X"]
=============================================================================
