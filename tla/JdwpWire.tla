------------------------------ MODULE JdwpWire -----------------------------
(***************************************************************************)
(* How the JDWP proxy walks a message and rewrites the reference type      *)
(* identifiers in it (jdwp_cursor_*, translate_payload_2), and how it reads*)
(* a list of classes (refresh_classes_with_signature).                     *)
(*                                                                         *)
(* The cursor is [pos, stack, err]; its stack is the frames up to depth.   *)
(* err stands for die: the message could not be read.  A read that is not  *)
(* aligned with a field is one, too: the program would go on with a        *)
(* meaningless value.                                                      *)
(***************************************************************************)
EXTENDS JdwpTypes

CONSTANT MaxClasses  \* bound: classes in a list

VARIABLES
  job,      \* what is done: [mode, type, expect, wrong]
  payload,  \* the bytes
  cur,      \* the cursor
  read      \* the classes read from a list

wvars == <<job, payload, cur, read>>

----------------------------------------------------------------------------
(* The frames of a cursor.                                                 *)
MAX_JDWP_TYPE_NESTING == 6

NoType == [kind |-> "null"]
NewFrame(t) == [type |-> t, index |-> 0, count |-> 0, elem |-> NoType, length |-> 0]

TopFrame(c) == c.stack[Len(c.stack)]
SetTop(c, f) == [c EXCEPT !.stack[Len(c.stack)] = f]
Die(c) == [c EXCEPT !.err = TRUE]

jdwp_cursor_has_value(c) == TopFrame(c).type # NoType
jdwp_cursor_has_parent(c) == Len(c.stack) > 1
jdwp_cursor_can_enter(c) == TopFrame(c).type.kind \in {"struct", "array", "arrayregion"}

(* jdwp_cursor_memcpy_out: w bytes can be read, and they are a number or a *)
(* tag.                                                                    *)
Readable(c, d, w, what) ==
  Len(d) - c.pos >= w /\ (w > 0 => d[c.pos + 1] # Pad /\ d[c.pos + 1].is = what)
At(c, d) == d[c.pos + 1].v
Skip(c, w) == [c EXCEPT !.pos = @ + w]

(* The value of a scalar is read, and written, where the cursor is.        *)
CanRead(c, d) == Readable(c, d, jdwp_scalar_width(TopFrame(c).type), "number")
jdwp_scalar_read(c, d) == At(c, d)
jdwp_scalar_write(c, d, v) == [d EXCEPT ![c.pos + 1] = Number(v)]

(* The init_frame functions: the top frame, f, of a value that begins at   *)
(* the cursor.                                                             *)
jdwp_string_init_frame(c, d, f) ==
  IF Readable(c, d, 4, "number") THEN Skip(SetTop(c, [f EXCEPT !.length = At(c, d)]), 4) ELSE Die(c)

jdwp_array_init_frame(c, d, f) ==
  IF Readable(c, d, 4, "number")
  THEN Skip(SetTop(c, [f EXCEPT !.count = At(c, d), !.elem = f.type.elem]), 4) ELSE Die(c)

jdwp_arrayregion_init_frame(c, d, f) ==
  IF Readable(c, d, 1, "tag") /\ At(c, d) \in Tags /\ Readable(Skip(c, 1), d, 4, "number")
  THEN Skip(SetTop(c, [f EXCEPT !.count = At(Skip(c, 1), d), !.elem = jdwp_tag_to_type(At(c, d))]), 5)
  ELSE Die(c)

jdwp_value_init_frame(c, d, f) ==
  IF Readable(c, d, 1, "tag") /\ At(c, d) \in Tags
  THEN Skip(SetTop(c, [f EXCEPT !.type = jdwp_tag_to_type(At(c, d))]), 1) ELSE Die(c)

jdwp_event_init_frame(c, d, f) ==
  IF Readable(c, d, 1, "tag") /\ At(c, d) \in DOMAIN Events
  THEN Skip(SetTop(c, [f EXCEPT !.type = STRUCT(Events[At(c, d)])]), 1) ELSE Die(c)

jdwp_event_modifier_init_frame(c, d, f) ==
  IF Readable(c, d, 1, "tag") /\ At(c, d) \in DOMAIN EventModifiers
  THEN Skip(SetTop(c, [f EXCEPT !.type = STRUCT(EventModifiers[At(c, d)])]), 1) ELSE Die(c)

InitFrame(c, d) ==
  LET f == TopFrame(c)
      k == f.type.kind
  IN  CASE k = "string" -> jdwp_string_init_frame(c, d, f)
        [] k = "array" -> jdwp_array_init_frame(c, d, f)
        [] k = "arrayregion" -> jdwp_arrayregion_init_frame(c, d, f)
        [] k \in {"value", "taggedObjectID"} -> jdwp_value_init_frame(c, d, f)
        [] k = "event" -> jdwp_event_init_frame(c, d, f)
        [] k = "eventModifier" -> jdwp_event_modifier_init_frame(c, d, f)
        [] OTHER -> c

(* next_type of frame f: what comes next inside it, and f after that.      *)
Exhausted(f) ==
  IF f.type.kind = "struct" THEN f.index = Len(f.type.fields) ELSE f.index = f.count
NextType(f) ==
  IF Exhausted(f) THEN NoType
  ELSE IF f.type.kind = "struct" THEN f.type.fields[f.index + 1] ELSE f.elem
Stepped(f) == IF Exhausted(f) THEN f ELSE [f EXCEPT !.index = @ + 1]

jdwp_cursor_create(t, d) == InitFrame([pos |-> 0, stack |-> <<NewFrame(t)>>, err |-> FALSE], d)

jdwp_cursor_enter(c, d) ==
  IF ~jdwp_cursor_has_value(c) \/ ~jdwp_cursor_can_enter(c) THEN Die(c)
  ELSE InitFrame([c EXCEPT !.stack = Append(SetTop(c, Stepped(TopFrame(c))).stack,
                                            NewFrame(NextType(TopFrame(c))))], d)

(* The top frame is done: its parent says what comes next.                 *)
NextSibling(c, d) ==
  IF ~jdwp_cursor_has_parent(c) THEN SetTop(c, NewFrame(NoType))
  ELSE LET n == Len(c.stack) - 1
           parent == c.stack[n]
       IN  InitFrame([c EXCEPT !.stack[n] = Stepped(parent),
                               !.stack[n + 1] = NewFrame(NextType(parent))], d)

jdwp_cursor_leave(c, d) ==
  IF ~jdwp_cursor_has_parent(c) \/ jdwp_cursor_has_value(c) THEN Die(c)
  ELSE NextSibling([c EXCEPT !.stack = Front(@)], d)

(* The advance of the type in the top frame; generic_advance goes through  *)
(* the parts of a struct or an array.                                      *)
RECURSIVE Advance(_, _), AdvanceAll(_, _)
jdwp_cursor_next(c, d) ==
  IF ~jdwp_cursor_has_value(c) \/ c.err THEN c ELSE NextSibling(Advance(c, d), d)
AdvanceAll(c, d) ==
  IF c.err \/ ~jdwp_cursor_has_value(c) THEN c ELSE AdvanceAll(jdwp_cursor_next(c, d), d)
Advance(c, d) ==
  LET f == TopFrame(c)
  IN  CASE f.type.kind = "scalar" -> Skip(c, jdwp_scalar_width(f.type))
        [] f.type.kind = "string" -> Skip(c, f.length)
        [] f.type.kind = "gobbleHack" -> [c EXCEPT !.pos = Len(d)]
        [] OTHER -> jdwp_cursor_leave(AdvanceAll(jdwp_cursor_enter(c, d), d), d)

----------------------------------------------------------------------------
(* translate_payload_2                                                     *)

(* The identifier on the other side; which one is JdwpProxy's matter.      *)
Translated(id) == IF id = 0 THEN 0 ELSE id + 100

RECURSIVE LeaveFinished(_, _)
LeaveFinished(c, d) ==
  IF c.err \/ jdwp_cursor_has_value(c) \/ ~jdwp_cursor_has_parent(c) THEN c
  ELSE LeaveFinished(jdwp_cursor_leave(c, d), d)

Walking == job.mode = "translate" /\ ~cur.err /\ jdwp_cursor_has_value(cur)

EnterValue ==
  /\ Walking /\ jdwp_cursor_can_enter(cur)
  /\ cur' = jdwp_cursor_enter(cur, payload)
  /\ UNCHANGED <<job, payload, read>>

TranslateValue ==
  /\ Walking /\ ~jdwp_cursor_can_enter(cur)
  /\ LET ref == IsRefType(TopFrame(cur).type)
         ok == ref => CanRead(cur, payload)
     IN  /\ payload' = IF ref /\ ok
                       THEN jdwp_scalar_write(cur, payload, Translated(jdwp_scalar_read(cur, payload)))
                       ELSE payload
         /\ cur' = IF ok THEN LeaveFinished(jdwp_cursor_next(cur, payload), payload) ELSE Die(cur)
  /\ UNCHANGED <<job, read>>

(* refresh_classes_with_signature: one round of the loop over the classes  *)
(* of a reply, and the end.                                                *)
EnterList(c, d) == jdwp_cursor_enter(jdwp_cursor_enter(c, d), d)

ReadClass(c, d) ==
  LET tag == jdwp_cursor_enter(c, d)
      id == jdwp_cursor_next(tag, d)
      status == jdwp_cursor_next(id, d)
      out == jdwp_cursor_leave(jdwp_cursor_next(status, d), d)
  IN  IF tag.err THEN [cur |-> tag, id |-> 0]
      ELSE [cur |-> jdwp_cursor_next(out, d), id |-> jdwp_scalar_read(id, d)]

Refreshing == job.mode = "refresh" /\ ~cur.err

RefreshClass ==
  /\ Refreshing /\ Len(read) < payload[1].v
  /\ LET r == ReadClass(cur, payload)
     IN  /\ cur' = r.cur
         /\ read' = IF r.cur.err THEN read ELSE Append(read, r.id)
  /\ UNCHANGED <<job, payload>>

EndRefresh ==
  /\ Refreshing /\ Len(read) = payload[1].v /\ jdwp_cursor_has_parent(cur)
  /\ cur' = jdwp_cursor_leave(jdwp_cursor_leave(cur, payload), payload)
  /\ UNCHANGED <<job, payload, read>>

----------------------------------------------------------------------------
ClassList(n) ==
  Leaf(4, n) \o FlattenSeq([i \in 1 .. n |->
                              Leaf(1, Some) \o Leaf(jdwp_scalar_width(reference_type_id), i)
                              \o Leaf(4, Some)])

InitTranslate ==
  \E t \in MessageTypes : \E m \in SentFor(t) :
    /\ payload = Bytes(m)
    /\ job = [mode |-> "translate", type |-> t, wrong |-> Misdeclared(t, m),
              expect |-> Bytes([i \in 1 .. Len(m) |->
                           IF m[i].ref THEN [m[i] EXCEPT !.v.v = Translated(@)] ELSE m[i]])]
    /\ cur = jdwp_cursor_create(t, payload)

InitRefresh ==
  \E n \in 0 .. MaxClasses :
    LET t == STRUCT(<<ARRAY(cbs_class_record)>>)
    IN  /\ payload = Bytes(ClassList(n))
        /\ job = [mode |-> "refresh", type |-> t, expect |-> payload, wrong |-> FALSE]
        /\ cur = EnterList(jdwp_cursor_create(t, payload), payload)

WireInit == read = <<>> /\ (InitTranslate \/ InitRefresh)

(* The walk ends where there is no value, which is also in an empty array  *)
(* that it has just entered.                                               *)
Finished ==
  \/ cur.err
  \/ /\ ~jdwp_cursor_has_value(cur)
     /\ job.mode = "refresh" => ~jdwp_cursor_has_parent(cur)
Done == Finished /\ UNCHANGED wvars

WireNext == EnterValue \/ TranslateValue \/ RefreshClass \/ EndRefresh \/ Done

WireSpec == WireInit /\ [][WireNext]_wvars

----------------------------------------------------------------------------
(* No message nests deeper than the cursor's stack, although the declared  *)
(* depth of a tagged type is not the depth of what the tag selects         *)
(* (jdwp_cursor_enter writes the frame before it looks at the depth).      *)
StackSuffices == Len(cur.stack) <= MAX_JDWP_TYPE_NESTING

(* The message can be read, and leaves with all its reference type         *)
(* identifiers, and nothing else, rewritten.                               *)
Translates == job.mode = "translate" => ~cur.err /\ (Finished => payload = job.expect)

(* A message of the protocol is walked within the cursor's stack and       *)
(* leaves with all its reference type identifiers, and nothing else,       *)
(* rewritten: although the walk stops at an empty array, and whether or    *)
(* not the table has the fields after the last it declares, or their       *)
(* widths, right (translate_payload_2).  Excepted are replies to           *)
(* M_LineTable, and a double before another field: see EveryMessage.       *)
Rewritten == StackSuffices /\ (~job.wrong => Translates)

(* Without the exception.  The code does not keep this; no run checks it.  *)
EveryMessage == Translates

(* A list of the classes with one signature, which several class loaders   *)
(* may have, can be read to its end (refresh_classes_with_signature).  The *)
(* code does not keep this for two classes; no run has MaxClasses > 1.     *)
RefreshReadsAll == job.mode = "refresh" => ~cur.err

============================================================================
