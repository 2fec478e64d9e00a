------------------------------ MODULE MCAsterix ------------------------------
EXTENDS Asterix, AsterixTables, AsterixStandard

\* The items at which a decoder and the edition it cites disagree, by
\* category, UAP and FRN.
KnownDivergent ==
    {<<1, 2, 22>>,                                          \* I001/150
     <<4, 1, 9>>, <<4, 1, 17>>, <<4, 1, 10>>, <<4, 1, 21>>, \* I004/170, 171, 120, SP
     <<7, 1, 24>>, <<7, 2, 11>>,                            \* I007/230, 415
     <<9, 1, 8>>,                                           \* I009/090
     <<11, 1, 11>>,                                         \* I011/380
     <<23, 1, 9>>,                                          \* I023/120
     <<62, 1, 11>>, <<62, 1, 28>>,                          \* I062/380, 340
     <<63, 1, 14>>,                                         \* I063/SP
     <<150, 1, 28>>}                                        \* I150/151

\* The tables of cat.py against the editions, item by item.
ASSUME TablesAgree
ASSUME RaiseOnlyWhereListed
ASSUME CutsLeaveNothing
=============================================================================
