------------------------------ MODULE MCCvForms ------------------------------
\* Numbers, texts and CVs to try in CvForms.
EXTENDS CvForms

HighestOf(S) == CHOOSE n \in S : \A m \in S : m <= n
LowestOf(S) == CHOOSE n \in S : \A m \in S : n <= m

\* Items that differ in their number only are edited alike, and the first stands
\* for them; the speed and volume pages know some by number.
Representatives(d) ==
  LET items == ToSet(Cvs(d))
      Shape(i) == [i EXCEPT !.cv = 0]
  IN  {i \in items : i.cv \in 2..6 \cup {VolumeMap(d).cv}}
        \cup {[s EXCEPT !.cv = LowestOf({i.cv : i \in {j \in items : Shape(j) = s}})] :
                s \in {Shape(i) : i \in items}}

\* The ends of what is accepted and what is next to them.
Ends(i) == {0, i.min - 1, i.max, i.max + 1}

\* The first and the last.
EndRadios(i) == IF i.bits = {} THEN {} ELSE {LowestOf(i.bits), HighestOf(i.bits)}

\* Every other bit, and all of them.
SomeHeld == {85, 255}

SomeTexts == UNION {{<<v>>, <<1, v>>, <<v, Wrong>>} : v \in {0, 255}}
SomePercents == {0, 1, 50, 51, 99, 100}

=============================================================================
