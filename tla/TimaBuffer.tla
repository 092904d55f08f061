----------------------------- MODULE TimaBuffer -----------------------------
(***************************************************************************)
(* The growable byte buffer of mw/support/tima_buffer.c, as the stream     *)
(* session uses it: bytes are appended at buffer_used, the block grows by  *)
(* half until they fit, consumed bytes are moved out at the front.         *)
(* Contents are left out: what matters is which bytes of the block each    *)
(* operation touches.  The while loop of tima_buffer_expand is a step per  *)
(* turn.                                                                   *)
(***************************************************************************)
EXTENDS Integers

CONSTANTS
  InitSize,      (* the size given to tima_buffer_init                       *)
  MaxLen,        (* longest piece appended                                   *)
  MaxTotal       (* bound: nothing is appended to a buffer of this size      *)

ASSUME BufAssumption ==
  /\ InitSize \in Nat /\ InitSize >= 2
  /\ MaxLen \in Nat /\ MaxTotal \in Nat

VARIABLES
  blockSize,     (* bytes malloc or realloc gave                             *)
  total,         (* buffer_total                                             *)
  used,          (* buffer_used                                              *)
  bufPc,         (* where the running operation is                           *)
  len,           (* its argument length                                      *)
  append,        (* its argument append; strdup_ex is append                 *)
  need           (* local of tima_buffer_expand                              *)

bufVars == <<blockSize, total, used, bufPc, len, append, need>>
argVars == <<len, append>>

BufTypeOK ==
  /\ blockSize \in Nat /\ total \in Nat /\ used \in Nat
  /\ bufPc \in {"idle", "grow", "write", "clean"}
  /\ len \in 0..MaxLen /\ append \in {0, 1} /\ need \in Nat

(* tima_buffer_init: one byte more than it records.                        *)
BufInit ==
  /\ blockSize = InitSize + 1 /\ total = InitSize /\ used = 0
  /\ bufPc = "idle" /\ len = 0 /\ append = 1 /\ need = 0

Half(n) == n + n \div 2

-----------------------------------------------------------------------------
(* Mutant of Start: the test for room ignores what is in use.              *)
StartIgnoringUsed(n, a) ==
  /\ len' = n /\ append' = a
  /\ IF n >= total
       THEN bufPc' = "grow" /\ need' = Half(total)
       ELSE bufPc' = "write" /\ UNCHANGED need
  /\ UNCHANGED <<blockSize, total, used>>

(* The common part: expand when offset + length reaches the total.         *)
Start(n, a) ==
  /\ len' = n /\ append' = a
  /\ IF used + n >= total
       THEN bufPc' = "grow" /\ need' = Half(total)
       ELSE bufPc' = "write" /\ UNCHANGED need
  /\ UNCHANGED <<blockSize, total, used>>

(* tima_buffer_strdup; with length 0 it returns at once.                   *)
Strdup(n, a) ==
  /\ bufPc = "idle" /\ total < MaxTotal
  /\ n > 0
  /\ Start(n, a)

StrdupEx(n) ==
  /\ bufPc = "idle" /\ total < MaxTotal
  /\ Start(n, 1)

(* One turn of the loop of tima_buffer_expand.                             *)
Grow ==
  /\ bufPc = "grow" /\ need < used + len
  /\ need' = Half(need)
  /\ UNCHANGED <<blockSize, total, used, bufPc, argVars>>

Realloc ==
  /\ bufPc = "grow" /\ need >= used + len
  /\ blockSize' = need /\ total' = need
  /\ bufPc' = "write"
  /\ UNCHANGED <<used, argVars, need>>

(* realloc fails: the call returns NULL and the old block stays.           *)
ReallocFails ==
  /\ bufPc = "grow" /\ need >= used + len
  /\ bufPc' = "idle"
  /\ UNCHANGED <<blockSize, total, used, argVars, need>>

(* memcpy of length bytes and the terminator behind them.                  *)
Write ==
  /\ bufPc = "write"
  /\ used' = IF append = 1 THEN used + len ELSE used + len + 1
  /\ bufPc' = "idle"
  /\ UNCHANGED <<blockSize, total, argVars, need>>

(* tima_buffer_align, for a caller that consumed no more than it had.      *)
Align(offset) ==
  /\ bufPc = "idle" /\ offset <= used
  /\ used' = used - offset
  /\ UNCHANGED <<blockSize, total, bufPc, argVars, need>>

Reset ==
  /\ bufPc = "idle"
  /\ used' = 0
  /\ UNCHANGED <<blockSize, total, bufPc, argVars, need>>

(* tima_buffer_clean: the last operation on a buffer; used keeps its value.*)
Clean ==
  /\ bufPc = "idle"
  /\ blockSize' = 0 /\ total' = 0
  /\ bufPc' = "clean"
  /\ UNCHANGED <<used, argVars, need>>

BufNext ==
  \/ \E n \in 0..MaxLen : StrdupEx(n) \/ \E a \in {0, 1} : Strdup(n, a)
  \/ Grow \/ Realloc \/ ReallocFails \/ Write
  \/ \E offset \in 0..used : Align(offset)
  \/ Reset \/ Clean

BufSpec == BufInit /\ [][BufNext]_bufVars

-----------------------------------------------------------------------------
(* Whatever was appended, consumed and refused before, what                *)
(* tima_buffer_strdup stores fits its block, the terminator behind the     *)
(* data included, except when the loop of tima_buffer_expand ended on      *)
(* exactly buffer_used + length: then the terminator, and only it, misses. *)
WriteInBlock ==
  bufPc = "write" => \/ used + len < blockSize
                     \/ used + len = blockSize /\ blockSize = need

(* buffer_used never passes the recorded total by more than the byte       *)
(* behind a terminator, so the byte count tima_buffer_align moves is sane. *)
UsedInside == bufPc # "clean" => used <= total + 1

=============================================================================
