------------------------- MODULE MCReadUnderIngest -------------------------
(* Small instances of ReadUnderIngest; markets, accounts, builders and ids  *)
(* are numbers since keys are compared.                                     *)
EXTENDS ReadUnderIngest

Said(kind, market, account, id, builder) ==
    [kind |-> kind, market |-> market, account |-> account, id |-> id,
     builder |-> builder]

\* Fills of one builder, in one transaction or in two, and an order in a market that has
\* no fill.
MCContents == {Said("fill", 1, 1, NoValue, 1), Said("order", 2, 2, 9, NoValue)}

MCTimestamp(v) == v
=============================================================================
