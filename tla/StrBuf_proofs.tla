--------------------------- MODULE StrBuf_proofs ----------------------------
(***************************************************************************)
(* The buffer is never overrun, whatever UINT_MAX is.                      *)
(***************************************************************************)
EXTENDS StrBuf, TLAPS

LEMMA InitIInv == Init => IInv
BY UMaxAssumption
   DEF Init, IInv, TypeOK, NoOverrun, Demand, UInt

\* A sum of two unsigned numbers that did not come out smaller did not wrap.
LEMMA AddUInt ==
  ASSUME NEW a \in UInt, NEW b \in UInt
  PROVE  /\ Add(a, b) \in UInt
         /\ a + b <= UMax => Add(a, b) = a + b
         /\ Add(a, b) >= a => Add(a, b) = a + b
BY UMaxAssumption DEF Add, UInt

LEMMA CallAppendKeeps ==
  ASSUME NEW v \in UInt, IInv, CallAppend(v)
  PROVE  IInv'
<1> USE UMaxAssumption DEF UInt
<1>1. /\ size \in UInt /\ len \in UInt /\ reach \in Nat
      /\ v < UMax /\ v \in UInt
      /\ vlen' = v /\ writer' = "append"
      /\ UNCHANGED <<size, len, reach, new_size>>
  BY DEF IInv, TypeOK, CallAppend, buf
<1>2. req_len' = Add(Add(len, v), 1) /\ req_len' \in UInt
  BY <1>1 DEF CallAppend, AppendRoom, Add
<1>3. req_len' >= len => req_len' = len + v + 1 /\ len + v + 1 <= UMax
  BY <1>1, <1>2 DEF Add
<1>4. pc' = "alloc" \/ pc' = "idle"
  BY DEF CallAppend, Fail
<1>5. pc' = "alloc" => req_len' >= len
  BY <1>1, <1>2 DEF CallAppend, Fail
<1>6. TypeOK'
  BY <1>1, <1>2, <1>4 DEF IInv, TypeOK, CallAppend, Fail
<1>7. (NoOverrun /\ len <= size)'
  BY <1>1 DEF IInv, NoOverrun
<1>8. (pc # "idle" => req_len = Demand /\ Demand <= UMax)'
  BY <1>1, <1>3, <1>4, <1>5 DEF Demand
<1> QED BY <1>4, <1>6, <1>7, <1>8 DEF IInv

LEMMA CallAppendStringKeeps ==
  ASSUME NEW v \in UInt, IInv, CallAppendString(v)
  PROVE  IInv'
<1> USE UMaxAssumption DEF UInt
<1>1. /\ len \in UInt /\ v \in UInt
      /\ len + 2 + 2 * v <= UMax
      /\ vlen' = v /\ writer' = "append_string" /\ pc' = "alloc"
      /\ UNCHANGED <<size, len, reach, new_size>>
  BY DEF IInv, TypeOK, CallAppendString, buf
<1>2. req_len' = len + 2 + 2 * v
  BY <1>1 DEF CallAppendString, StringRoom, Add
<1>3. TypeOK'
  BY <1>1, <1>2 DEF IInv, TypeOK, CallAppendString
<1>4. (pc # "idle" => req_len = Demand /\ Demand <= UMax)'
  BY <1>1, <1>2 DEF Demand
<1> QED BY <1>1, <1>3, <1>4 DEF IInv, NoOverrun

LEMMA AllocKeeps ==
  ASSUME IInv, Enough \/ FirstSize \/ Grow \/ Realloc \/ ReallocFails
  PROVE  IInv'
<1> USE UMaxAssumption DEF UInt, IInv, TypeOK, NoOverrun, buf, call
<1>1. CASE Enough
  BY <1>1 DEF Enough, Demand
<1>2. CASE FirstSize
  <2>1. new_size' \in UInt
    BY <1>2, AddUInt DEF FirstSize
  <2> QED BY <1>2, <2>1 DEF FirstSize, Fail, Demand
<1>3. CASE Grow
  <2>1. new_size' \in UInt /\ new_size' >= new_size
    <3>1. Larger \in UInt
      <4>1. new_size \in UInt /\ new_size \div 2 \in UInt
        OBVIOUS
      <4> QED BY <4>1, AddUInt DEF Larger
    <3>2. IF Larger < new_size THEN new_size' = new_size
                               ELSE new_size' = Larger
      BY <1>3 DEF Grow
    <3> QED BY <3>1, <3>2
  <2> QED BY <1>3, <2>1 DEF Grow, Fail, Demand
<1>4. CASE Realloc
  BY <1>4 DEF Realloc, Demand
<1>5. CASE ReallocFails
  BY <1>5 DEF ReallocFails, Fail, Demand
<1> QED BY <1>1, <1>2, <1>3, <1>4, <1>5

LEMMA WriteKeeps ==
  ASSUME IInv, WriteAppend \/ WriteString
  PROVE  IInv'
<1> USE UMaxAssumption DEF UInt, IInv, TypeOK, NoOverrun, call, Wrote
<1>1. CASE WriteAppend
  BY <1>1 DEF WriteAppend, Demand
<1>2. CASE WriteString
  <2>1. PICK escaped \in 0 .. vlen : len' = len + 2 + vlen + escaped
    BY <1>2 DEF WriteString
  <2>2. len' \in UInt /\ len' <= size
    BY <1>2, <2>1 DEF WriteString, Demand
  <2> QED BY <1>2, <2>2 DEF WriteString
<1> QED BY <1>1, <1>2

LEMMA FreeKeeps ==
  ASSUME IInv, Free
  PROVE  IInv'
BY UMaxAssumption DEF IInv, TypeOK, NoOverrun, UInt, call, Free

(***************************************************************************)
(* The invariant of the buffer: the pending call asked for as much as it   *)
(* may write, and got it.                                                  *)
(***************************************************************************)
THEOREM BufferInvariant == Spec => []IInv
<1>1. IInv /\ [Next]_vars => IInv'
  <2> SUFFICES ASSUME IInv, [Next]_vars PROVE IInv'
    OBVIOUS
  <2>1. CASE \E v \in UInt : CallAppend(v) \/ CallAppendString(v)
    BY <2>1, CallAppendKeeps, CallAppendStringKeeps
  <2>2. CASE Work
    BY <2>2, AllocKeeps, WriteKeeps DEF Work
  <2>3. CASE Free
    BY <2>3, FreeKeeps
  <2>4. CASE UNCHANGED vars
    BY <2>4 DEF vars, buf, call, IInv, TypeOK, NoOverrun, Demand
  <2> QED BY <2>1, <2>2, <2>3, <2>4 DEF Next
<1> QED BY InitIInv, <1>1, PTL DEF Spec

(***************************************************************************)
(* No byte is written behind the end of the buffer, for every width of     *)
(* unsigned and every sequence of calls.                                   *)
(***************************************************************************)
THEOREM NeverOverrun == Spec => []NoOverrun
<1>1. IInv => NoOverrun
  BY DEF IInv
<1> QED BY BufferInvariant, <1>1, PTL

(***************************************************************************)
(* A call that fails leaves the buffer as it was.                          *)
(***************************************************************************)
THEOREM FailureKeeps == Spec => FailureKeepsText
<1>1. [Next]_vars =>
        (ret' = "SASL_NOMEM" /\ pc # "idle" /\ pc' = "idle" => UNCHANGED buf)
  <2> SUFFICES ASSUME [Next]_vars, pc # "idle", pc' = "idle",
                      ret' = "SASL_NOMEM"
               PROVE  UNCHANGED buf
    OBVIOUS
  <2> QED
    BY DEF Next, Work, CallAppend, CallAppendString, Enough, FirstSize, Grow,
           Realloc, ReallocFails, WriteAppend, WriteString, Free, Fail, vars
<1> QED BY <1>1, PTL DEF Spec, FailureKeepsText
=============================================================================
