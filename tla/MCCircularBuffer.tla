--------------------------- MODULE MCCircularBuffer ---------------------------
(* Circular_Buffer with a ring of four slots: in its multi form with three    *)
(* messages, two of which share the key bytes replace() looks at and one of   *)
(* which is as long as a slot, and in its single-value form with two values   *)
(* and a newline.                                                             *)
EXTENDS SingleBuffer

VARIABLE multi   \* the template's parameter: the form of the buffer

MCEntry == {<<"k1", 1>>, <<"k1", 2>>, <<"k2", 1>>}
MCBlank == <<"blank", 0>>
MCSameKey(a, b) == a[1] = b[1]
MCMovesWhole(e) == e \in {<<"k1", 1>>, <<"k1", 2>>}
MCSpoilt == {<<"k1", 0>>}

\* None, some, and more values than there are slots.
MCBulk == {<< >>, <<2>>, <<2, 1>>, <<1, 2, 2>>, <<2, 1, 1, 2, 1>>}

\* The index arithmetic agrees with the bit masks of the source: (i + n) masked
\* with 2*_size-1 keeps the low bits, exclusive-or with _size flips one bit.
MaskLaws ==
  \A i \in Index :
    /\ Ahead(i, Size) = (IF i >= Size THEN i - Size ELSE i + Size)
    /\ Before(i) = (IF i = 0 THEN 2 * Size - 1 ELSE i - 1)
    /\ SlotOf(Ahead(i, 1)) = (SlotOf(i) + 1) % Size
ASSUME MaskLaws

\* A buffer has one form for good; the other form's state is not there.
BothInit == Init /\ SingleInit /\ multi \in BOOLEAN

WholeMessages == multi /\ Next /\ UNCHANGED <<singleVars, multi>>

SingleValues == ~multi /\ SingleNext /\ UNCHANGED <<vars, multi>>

BothForms == BothInit /\ [][WholeMessages \/ SingleValues]_<<vars, singleVars, multi>>
=============================================================================
