--------------------------- MODULE MC_LogManager ---------------------------
EXTENDS LogManager, TLC

CONSTANTS c1, c2, i1

\* The writing transaction, alone or with a second one.
MCOneClient == {c1}

MCClientPair == {c1, c2}

\* The transaction rolling back, which opens iterators.
MCIterators == {i1}

====
