----------------------------- MODULE PrettyLog ------------------------------
(***************************************************************************)
(* app/v3/log/prettylog: IndentHandler.  WithGroup and WithAttrs derive a  *)
(* handler, which has the groups and attributes of the one it is derived   *)
(* from and one more; Handle takes a buffer from a pool, writes a record's *)
(* line into it, writes the buffer out under a lock and gives it back.     *)
(* Goroutines log and derive at the same time.                             *)
(*                                                                         *)
(* A slice is an array and a length, so that two handlers may have one     *)
(* array.  A record is named by who logs it.  lineage is a history         *)
(* variable: what each handler was derived with, its ancestors' first.     *)
(***************************************************************************)
EXTENDS Naturals, Sequences

CONSTANTS
  Loggers,          \* goroutines that log, each one record
  Attrs,            \* arguments of WithGroup and WithAttrs, other than the empty ones
  Nobody,
  MaxHandlers,      \* bound on handlers
  MaxBuffers        \* buffers that the pool may make

VARIABLES
  goas,        \* per handler: the array of its slice and its length
  arrays,      \* the arrays
  handlers,    \* handlers so far
  lineage,
  pc, handler, \* per logger: place, handler that it logs with
  buf,         \* per logger: its buffer
  owner, text, \* per buffer: who has it, Nobody if it is in the pool; what it holds
  out          \* the lines written

handlerVars == <<goas, arrays, handlers, lineage>>
vars == <<handlerVars, pc, handler, buf, owner, text, out>>

Handlers == 1..MaxHandlers
Buffers == 1..MaxBuffers
Goas(h) == SubSeq(arrays[goas[h].array], 1, goas[h].len)

(* New *)
Init ==
  /\ goas = [h \in Handlers |-> [array |-> h, len |-> 0]]
  /\ arrays = [h \in Handlers |-> <<>>] /\ handlers = 1
  /\ lineage = [h \in Handlers |-> <<>>]
  /\ pc = [l \in Loggers |-> "idle"] /\ handler = [l \in Loggers |-> 1]
  /\ buf = [l \in Loggers |-> 0]
  /\ owner = [b \in Buffers |-> Nobody] /\ text = [b \in Buffers |-> <<>>]
  /\ out = <<>>

----------------------------------------------------------------------------
(* Fault: the new entry is appended to the handler's own slice, which      *)
(* writes into its array where there is room.                              *)
withGroupOrAttrsAppend(h, x) ==
  LET n == handlers + 1 IN
  /\ h <= handlers /\ n <= MaxHandlers
  /\ handlers' = n
  /\ goas' = [goas EXCEPT ![n] = [array |-> goas[h].array, len |-> goas[h].len + 1]]
  /\ arrays' = [arrays EXCEPT ![goas[h].array] =
                   Append(Goas(h), x) \o SubSeq(@, goas[h].len + 2, Len(@))]
  /\ lineage' = [lineage EXCEPT ![n] = Append(lineage[h], x)]
  /\ UNCHANGED <<pc, handler, buf, owner, text, out>>

withGroupOrAttrs(h, x) ==
  LET n == handlers + 1 IN
  /\ h <= handlers /\ n <= MaxHandlers
  /\ handlers' = n
  /\ goas' = [goas EXCEPT ![n] = [array |-> n, len |-> goas[h].len + 1]]
  /\ arrays' = [arrays EXCEPT ![n] = Append(Goas(h), x)]
  /\ lineage' = [lineage EXCEPT ![n] = Append(lineage[h], x)]
  /\ UNCHANGED <<pc, handler, buf, owner, text, out>>

(* Handle: newBuffer; a buffer of the pool or a new one, which is empty.   *)
NewBuffer(l, h, b) ==
  /\ pc[l] = "idle" /\ h <= handlers /\ owner[b] = Nobody
  /\ handler' = [handler EXCEPT ![l] = h]
  /\ owner' = [owner EXCEPT ![b] = l] /\ buf' = [buf EXCEPT ![l] = b]
  /\ pc' = [pc EXCEPT ![l] = "head"]
  /\ UNCHANGED <<handlerVars, text, out>>

(* The level, the time, the place and the message. *)
WriteHead(l) ==
  /\ pc[l] = "head"
  /\ text' = [text EXCEPT ![buf[l]] = Append(@, l)]
  /\ pc' = [pc EXCEPT ![l] = "groups"]
  /\ UNCHANGED <<handlerVars, handler, buf, owner, out>>

(* writeGroups, writeAttrData and the end of the line. *)
WriteGroups(l) ==
  /\ pc[l] = "groups"
  /\ text' = [text EXCEPT ![buf[l]] = @ \o Goas(handler[l])]
  /\ pc' = [pc EXCEPT ![l] = "out"]
  /\ UNCHANGED <<handlerVars, handler, buf, owner, out>>

(* writeAttrData panics: a nil value logged at the debug level has no type *)
(* to ask for its kind. The deferred Free still runs.                      *)
AttrPanics(l) ==
  /\ pc[l] = "groups"
  /\ text' = [text EXCEPT ![buf[l]] = @ \o Goas(handler[l])]
  /\ pc' = [pc EXCEPT ![l] = "free"]
  /\ UNCHANGED <<handlerVars, handler, buf, owner, out>>

WriteOut(l) ==
  /\ pc[l] = "out"
  /\ out' = Append(out, text[buf[l]])
  /\ pc' = [pc EXCEPT ![l] = "free"]
  /\ UNCHANGED <<handlerVars, handler, buf, owner, text>>

(* Free, deferred: a large buffer is left to the collector instead. *)
Free(l) ==
  /\ pc[l] = "free"
  /\ text' = [text EXCEPT ![buf[l]] = <<>>]
  /\ owner' = [owner EXCEPT ![buf[l]] = Nobody] /\ buf' = [buf EXCEPT ![l] = 0]
  /\ pc' = [pc EXCEPT ![l] = "done"]
  /\ UNCHANGED <<handlerVars, handler, out>>

Next ==
  \/ \E h \in Handlers, x \in Attrs : withGroupOrAttrs(h, x)
  \/ \E l \in Loggers, h \in Handlers, b \in Buffers : NewBuffer(l, h, b)
  \/ \E l \in Loggers : WriteHead(l) \/ WriteGroups(l) \/ AttrPanics(l) \/ WriteOut(l) \/ Free(l)

----------------------------------------------------------------------------
TypeOK ==
  /\ handlers \in Handlers /\ handler \in [Loggers -> Handlers]
  /\ pc \in [Loggers -> {"idle", "head", "groups", "out", "free", "done"}]
  /\ buf \in [Loggers -> 0..MaxBuffers] /\ owner \in [Buffers -> Loggers \cup {Nobody}]
  /\ \A l \in Loggers : pc[l] \in {"head", "groups", "out", "free"} => owner[buf[l]] = l

(* Every line has one record, whole, with the groups and attributes of the *)
(* handler that it was logged with and of no other, however handlers are   *)
(* derived from one another and buffers passed on meanwhile, and whichever *)
(* Handle panics (plog.go:67-88, 150-243; buffer.go:7-25).                 *)
LinesWhole ==
  \A i \in 1..Len(out) : \E l \in Loggers :
    pc[l] \in {"free", "done"} /\ out[i] = <<l>> \o lineage[handler[l]]
=============================================================================
