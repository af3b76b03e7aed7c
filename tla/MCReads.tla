------------------------------ MODULE MCReads ------------------------------
(* Small instances of Reads: every kind of event, markets and accounts that *)
(* are numbers since they are sorted, and amounts of several scales.        *)
EXTENDS MCEngines, Reads

MCContents == AllContents \cup {Said("position", m2, a1, NoValue, NoValue)}

Dec(units, scale) == [units |-> units, scale |-> scale]

\* Fills of one transaction add up to a whole number, and those of two to more than
\* MaxUnits hundredths.
MCNotional(e) ==
    CASE e.content.account = a2 -> NotANumber
      [] e.idx = 1 -> Dec(75, 2)
      [] e.version = 2 -> Dec(20, 1)
      [] OTHER -> Dec(225, 2)

MCFee(e) ==
    CASE e.idx = 1 -> NoValue
      [] e.version = 2 -> Dec(5, 2)
      [] OTHER -> Dec(-1, 3)

MCClock(v) == v
=============================================================================
