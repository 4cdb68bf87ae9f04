----------------------------- MODULE MCReadBack -----------------------------
\* Two controllers, three addresses and an EEPROM of seven bytes read in blocks of three.
EXTENDS ReadBack

MCLocals == {[a \in 0 .. 2 |-> IF a = 1 THEN "active" ELSE "nobody"]}
MCSelections == {{1, 2}}
MCAddressLists == {{0}, {0, 1, 2}}
\* Two blocks, the second of them shorter.
MCSearches == {[start |-> 1, end |-> 5, block |-> 3]}
\* On controller 1 the card lies across the border of the blocks and across that of the range.
MCPlanted == [n \in Node |-> IF n = 1 THEN {3, 5} ELSE {0}]
MCPlantedRecords == [n \in Node |-> IF n = 1 THEN {1} ELSE {4}]
=============================================================================
