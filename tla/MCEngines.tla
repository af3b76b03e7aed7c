----------------------------- MODULE MCEngines -----------------------------
(* Small instances of Engines: two transactions to a block, and events that *)
(* fall on the same keys in as many of the column families as they can.     *)
EXTENDS Engines

CONSTANTS m1, m2, a1, a2, b

Said(kind, market, account, id, builder) ==
    [kind |-> kind, market |-> market, account |-> account, id |-> id,
     builder |-> builder]

NamedFill == Said("fill", m1, a1, 1, b)
Order == Said("order", m1, a1, 1, NoValue)
Position == Said("position", m1, a1, NoValue, NoValue)

\* A fill with and without an id of its own, and rows that later ones overwrite.
FewContents == {NamedFill, Said("fill", m1, a1, NoValue, b), Order, Position}

\* Every kind, and fills that differ in one of the segments of their keys.
AllContents ==
    FewContents \cup
    {Said("fill", m1, a2, 1, b), Said("fill", m2, a1, NoValue, NoValue),
     Said("notice", m1, NoValue, NoValue, NoValue),
     Said("unknown", NoValue, NoValue, NoValue, NoValue)}

MCTimestamp(v) == (v - 1) \div 2
=============================================================================
