------------------------------- MODULE StrBuf -------------------------------
(***************************************************************************)
(* The growing buffer of xoauth2_str.c and its two writers, str_append and *)
(* the server's append_string: lengths are C's unsigned, which wrap.       *)
(***************************************************************************)
EXTENDS Integers

CONSTANT UMax   \* UINT_MAX

ASSUME UMaxAssumption == UMax \in Nat /\ UMax >= 31

VARIABLES
  size, len,    \* the fields of xoauth2_plugin_str; size 0: buf is ""
  pc,           \* "idle", "alloc", "grow", "write"
  writer,       \* which function is writing, "append" or "append_string"
  vlen,         \* the length of what it writes
  req_len,      \* what it asks str_alloc for
  new_size,     \* str_alloc's local variable
  reach,        \* one past the last byte ever written into buf
  ret           \* what the last call returned

buf == <<size, len, reach>>
call == <<writer, vlen, req_len>>
vars == <<buf, pc, call, new_size, ret>>

UInt == 0 .. UMax

\* Unsigned addition.
Add(a, b) == IF a + b > UMax THEN a + b - (UMax + 1) ELSE a + b

Init ==
  /\ size = 0 /\ len = 0 /\ reach = 0
  /\ pc = "idle"
  /\ writer = "append" /\ vlen = 0 /\ req_len = 0
  /\ new_size = 0
  /\ ret = "SASL_OK"

Fail ==
  /\ ret' = "SASL_NOMEM"
  /\ pc' = "idle"

\* Mutant of AppendRoom: no room for the zero.
TextRoom(v) == Add(len, v)

AppendRoom(v) == Add(Add(len, v), 1)

\* Mutant of StringRoom: no room for escapes.
PlainRoom(v) == Add(Add(len, 2), v)

StringRoom(v) == Add(Add(len, 2), 2 * v)

(***************************************************************************)
(* str_append asks for room for the text and a zero behind it, and looks   *)
(* for a wrap.  No text is as long as UINT_MAX.                            *)
(***************************************************************************)
CallAppend(v) ==
  /\ pc = "idle"
  /\ v < UMax
  /\ writer' = "append" /\ vlen' = v
  /\ req_len' = AppendRoom(v)
  /\ IF req_len' < len THEN Fail ELSE pc' = "alloc" /\ UNCHANGED ret
  /\ UNCHANGED <<buf, new_size>>

(***************************************************************************)
(* append_string asks for two bytes per character and the quotes, and does *)
(* not look for a wrap: the status, the type and the scope it is called    *)
(* with are short enough.                                                  *)
(***************************************************************************)
CallAppendString(v) ==
  /\ pc = "idle"
  /\ len + 2 + 2 * v <= UMax
  /\ writer' = "append_string" /\ vlen' = v
  /\ req_len' = StringRoom(v)
  /\ pc' = "alloc"
  /\ UNCHANGED <<buf, new_size, ret>>
-----------------------------------------------------------------------------
\* xoauth2_plugin_str_alloc

Enough ==
  /\ pc = "alloc" /\ req_len < size
  /\ pc' = "write"
  /\ UNCHANGED <<buf, call, new_size, ret>>

FirstSize ==
  /\ pc = "alloc" /\ req_len >= size
  /\ new_size' = Add(size, 16)
  /\ IF new_size' < size THEN Fail ELSE pc' = "grow" /\ UNCHANGED ret
  /\ UNCHANGED <<buf, call>>

\* Mutant of Larger: too small a part to grow by.
LargerByPart == Add(new_size, new_size \div 32)

Larger == Add(new_size, new_size \div 2)

Grow ==
  /\ pc = "grow" /\ new_size < req_len
  /\ IF Larger < new_size
     THEN Fail /\ UNCHANGED new_size
     ELSE new_size' = Larger /\ UNCHANGED <<pc, ret>>
  /\ UNCHANGED <<buf, call>>

Realloc ==
  /\ pc = "grow" /\ new_size >= req_len
  /\ size' = new_size
  /\ pc' = "write"
  /\ UNCHANGED <<len, reach, call, new_size, ret>>

\* Mutant of ReallocFails: the size is recorded before the check for NULL.
ReallocFailsLate ==
  /\ pc = "grow" /\ new_size >= req_len
  /\ Fail
  /\ size' = new_size
  /\ UNCHANGED <<len, reach, call, new_size>>

ReallocFails ==
  /\ pc = "grow" /\ new_size >= req_len
  /\ Fail
  /\ UNCHANGED <<buf, call, new_size>>
-----------------------------------------------------------------------------
Wrote(end) == reach' = IF end > reach THEN end ELSE reach

WriteAppend ==
  /\ pc = "write" /\ writer = "append"
  /\ len' = len + vlen
  /\ Wrote(len' + 1)
  /\ pc' = "idle" /\ ret' = "SASL_OK"
  /\ UNCHANGED <<size, call, new_size>>

\* Of the vlen characters, escaped are written as two.
WriteString ==
  /\ pc = "write" /\ writer = "append_string"
  /\ \E escaped \in 0 .. vlen : len' = len + 2 + vlen + escaped
  /\ Wrote(len')
  /\ pc' = "idle" /\ ret' = "SASL_OK"
  /\ UNCHANGED <<size, call, new_size>>

Free ==
  /\ pc = "idle" /\ size # 0
  /\ size' = 0 /\ len' = 0 /\ reach' = 0
  /\ UNCHANGED <<pc, call, new_size, ret>>

Work ==
  \/ Enough \/ FirstSize \/ Grow \/ Realloc \/ ReallocFails
  \/ WriteAppend \/ WriteString

Next ==
  \/ \E v \in UInt : CallAppend(v) \/ CallAppendString(v)
  \/ Work
  \/ Free

Spec == Init /\ [][Next]_vars

\* A call that was made is carried out.
FairSpec == Spec /\ WF_vars(Work)
-----------------------------------------------------------------------------
TypeOK ==
  /\ size \in UInt /\ len \in UInt /\ reach \in Nat
  /\ pc \in {"idle", "alloc", "grow", "write"}
  /\ writer \in {"append", "append_string"}
  /\ vlen \in UInt /\ req_len \in UInt /\ new_size \in UInt
  /\ ret \in {"SASL_OK", "SASL_NOMEM"}

(***************************************************************************)
(* No byte is written behind the end of buf, although the length asked     *)
(* for, the first size and the growth by half may each wrap.               *)
(***************************************************************************)
NoOverrun == reach <= size

(***************************************************************************)
(* A call that fails leaves the text and the buffer as they were: what was *)
(* written before it can still be read, and freed.                         *)
(***************************************************************************)
FailureKeepsText ==
  [][ret' = "SASL_NOMEM" /\ pc # "idle" /\ pc' = "idle" => UNCHANGED buf]_vars

(***************************************************************************)
(* Every call returns: growing by half reaches the size asked for or stops *)
(* at the wrap.                                                            *)
(***************************************************************************)
CallReturns == pc # "idle" ~> pc = "idle"
-----------------------------------------------------------------------------
\* What makes NoOverrun inductive: how far the pending call may write.
Demand ==
  IF writer = "append" THEN len + vlen + 1 ELSE len + 2 + 2 * vlen

IInv ==
  /\ TypeOK
  /\ NoOverrun
  /\ len <= size
  /\ pc # "idle" => req_len = Demand /\ Demand <= UMax
  /\ pc = "grow" => new_size >= size
  /\ pc = "write" => Demand <= size
=============================================================================
