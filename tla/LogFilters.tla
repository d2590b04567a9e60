----------------------------- MODULE LogFilters -----------------------------
(***************************************************************************)
(* Which log events reach which sinks (cLogSink.h, cLogMgr.cpp), and the   *)
(* text they are written as (cLogSink.cpp), while nobody changes the sinks *)
(* (LogNexus models that).  A processor is a sink or a nexus:              *)
(*   a sink  [id, type, says]   says: what its own addEvent answers;       *)
(*   a nexus [id, type, filter, sinks],  filter [mask, level].             *)
(* An event is [mask, level, subject, msg]; masks are sets of attributes,  *)
(* levels numbers, texts sequences, of which <<>> is none.                 *)
(***************************************************************************)
EXTENDS Integers, Sequences, SequencesExt

CONSTANTS WARN, QTY,                \* LOGLVL_t: the first with a prefix, their number
          Prefix,                   \* of each level from WARN on
          NoNewLine,                \* LOG_ATTR_NOCRLF
          Colon, NewLine, Returns   \* ':', '\n', '\r'

EMPTY == -1                         \* ERROR_EMPTY: nobody cares for it
INVALIDARG == -2                    \* E_INVALIDARG

IsNexus(p) == "sinks" \in DOMAIN p

IsLogged(filter, mask, level) ==
  /\ level >= filter.level
  /\ mask = {} \/ mask \cap filter.mask # {}

(* addEvent: what it answers and which sinks it has called.  created: is    *)
(* there a cLogMgr.                                                         *)
RECURSIVE AddEvent(_, _, _), AddToSinks(_, _, _, _, _)
AddEvent(created, p, e) ==
  IF ~IsNexus(p) THEN [res |-> p.says, got |-> <<p.id>>]
  ELSE IF ~created \/ ~IsLogged(p.filter, e.mask, e.level) THEN [res |-> EMPTY, got |-> <<>>]
  ELSE IF e.msg = <<>> THEN [res |-> INVALIDARG, got |-> <<>>]
  ELSE AddToSinks(p.sinks, e, 0, 0, <<>>)
AddToSinks(sinks, e, used, last, got) ==
  IF sinks = <<>> THEN [res |-> IF used > 0 THEN used ELSE last, got |-> got]
  ELSE LET added == AddEvent(TRUE, Head(sinks), e)
       IN AddToSinks(Tail(sinks), e, IF added.res > 0 THEN used + 1 ELSE used, added.res, got \o added.got)

(* addEventS asks first; a sink that is none itself wants everything.       *)
AddEventS(created, p, e) ==
  IF IsNexus(p) /\ ~IsLogged(p.filter, e.mask, e.level) THEN [res |-> EMPTY, got |-> <<>>]
  ELSE AddEvent(created, p, e)

(* A subject passes its events on to cLogMgr under its name.                *)
AddEventOfSubject(mgr, subject, e) == AddEvent(TRUE, mgr, [e EXCEPT !.subject = subject])

(* The id of the first sink of a type, or 0.                                *)
RECURSIVE FindSinkType(_, _, _)
FindSinkType(sinks, type, descend) ==
  IF sinks = <<>> THEN 0
  ELSE LET p == Head(sinks)
           below == IF descend /\ IsNexus(p) THEN FindSinkType(p.sinks, type, TRUE) ELSE 0
       IN IF p.type = type THEN p.id
          ELSE IF below # 0 THEN below ELSE FindSinkType(Tail(sinks), type, descend)

(* RemoveSink takes a sink out of all lists it is in.                       *)
RECURSIVE RemoveSink(_, _, _)
RemoveSink(sinks, id, descend) ==
  IF sinks = <<>> THEN <<>>
  ELSE LET p == Head(sinks)
           left == IF descend /\ IsNexus(p) THEN [p EXCEPT !.sinks = RemoveSink(@, id, TRUE)] ELSE p
       IN (IF p.id = id THEN <<>> ELSE <<left>>) \o RemoveSink(Tail(sinks), id, descend)
RemoveSinkType(sinks, type, descend) ==
  LET id == FindSinkType(sinks, type, descend)
  IN IF id = 0 THEN sinks ELSE RemoveSink(sinks, id, descend)

GetPrefixStr(level) == IF level < WARN \/ level >= QTY THEN <<>> ELSE Prefix[level]
(* The text of an event: a line of its own, unless it must not end here.    *)
GetFormattedDefault(e) ==
  GetPrefixStr(e.level)
  \o (IF e.subject # <<>> THEN e.subject \o <<Colon>> ELSE <<>>)
  \o e.msg
  \o IF Last(e.msg) \in {NewLine, Returns} \/ NoNewLine \in e.mask THEN <<>> ELSE <<NewLine>>
=============================================================================
