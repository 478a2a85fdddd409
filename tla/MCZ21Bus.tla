------------------------------ MODULE MCZ21Bus ------------------------------
(* Small instances of Z21Bus.                                              *)
EXTENDS Z21Bus

CONSTANTS o1, o2, o3, tab1, tab2

OneTab == [o \in Ops |-> tab1]
TwoTabs == [o \in Ops |-> IF o = o2 THEN tab2 ELSE tab1]

Ask(kind, cvs) == [kind |-> kind, cvs |-> cvs]

\* A write of one CV, then a batch that ends with the same CV.
WriteThenWrite ==
  [o \in Ops |-> IF o = o1 THEN {Ask("write", <<1>>)}
                           ELSE {Ask("write", <<2, 1>>)}]

\* A batch, acknowledged or not, against a listener or a function on a second
\* connection.
BatchAndOthers ==
  [o \in Ops |-> IF o = o1
                 THEN {Ask("write", <<1, 2>>), Ask("pomWrite", <<1, 3>>)}
                 ELSE {Ask("function", <<>>), Ask("observe", <<>>)}]

\* A batch against a read on a second connection.
BatchAndReader ==
  [o \in Ops |-> {IF o = o1 THEN Ask("write", <<1, 2>>) ELSE Ask("read", <<1>>)}]

=============================================================================
