--------------------------- MODULE ProcessProofs ----------------------------
(***************************************************************************)
(* Proofs about what a process keeps: its terminals (TtySave, for any      *)
(* number of them) and its children (Child, for any number of children,    *)
(* process ids and units of output, and whatever the program calls when).  *)
(***************************************************************************)
EXTENDS TtySave, Child, SequenceTheorems, TLAPS

----------------------------------------------------------------------------
(* Terminals.  While shex runs each terminal is as its open channels want  *)
(* it, and the list of terminals is damaged only where TableSound says.    *)

(* The inductive invariant.  Restore is a function on records of the       *)
(* variables, so the parts of the invariant that it preserves are stated   *)
(* of such a record.                                                       *)

Attrs == {"own", "raw", "rawIn", "rawOut", "shell"}
Runs == {"setup", "running", "stopped", "halted", "hung", "corrupt", "exited"}

Entries ==
  [exists : BOOLEAN, refs : Nat, in : Nat, out : Nat, desired : Attrs, suspended : BOOLEAN]

States ==
  [attr : [Ttys -> Attrs], entry : [Ttys -> Entries],
   after : [Ttys \cup {TtyHead} -> Ttys \cup {Nil}],
   before : [Ttys -> Ttys \cup {TtyHead, Nil}],
   raw : [Channels -> BOOLEAN], open : [Channels -> BOOLEAN], run : Runs]

Share(s, c, t) == IF s.raw[c] /\ on[c] = t THEN 1 ELSE 0

(* An entry counts the channels that are raw on its terminal; a terminal   *)
(* without such channels is as it was found, or as the shell left it.      *)
Shares(s) ==
  \A t \in Ttys :
    /\ s.entry[t].in = Share(s, 1, t)
    /\ s.entry[t].out = Share(s, 2, t) + Share(s, 3, t)
    /\ s.entry[t].refs = s.entry[t].in + s.entry[t].out
    /\ s.entry[t].exists <=> s.entry[t].refs > 0
    /\ s.entry[t].desired = Desired(s.entry[t])
    /\ s.entry[t].refs = 0 => s.attr[t] \in {"own", "shell"}

Synced(s) == \A t \in Ttys : s.entry[t].exists => s.attr[t] = s.entry[t].desired

Calm(s) == \A t \in Ttys : ~s.entry[t].suspended

Usable(s) == \A c \in Channels : s.raw[c] => s.open[c] /\ on[c] \in Ttys

(* The list, if no two channels are on the same terminal ...               *)
Linked(s) ==
  /\ s.after[TtyHead] # Nil =>
       s.entry[s.after[TtyHead]].exists /\ s.before[s.after[TtyHead]] = TtyHead
  /\ \A t \in Ttys : s.entry[t].exists =>
       /\ s.after[t] # Nil => s.entry[s.after[t]].exists /\ s.before[s.after[t]] = t
       /\ s.before[t] # TtyHead => s.before[t] \in Ttys /\ s.entry[s.before[t]].exists
       /\ s.after[s.before[t]] = t

(* ... and if all that are on a terminal are on the same.                  *)
Looped(s) ==
  \A t \in Ttys : s.entry[t].exists => s.before[t] = TtyHead /\ s.after[t] \in {Nil, t}

Distinct == \A c, d \in Channels : c # d /\ on[c] # Nil => on[c] # on[d]
Mixed == Nil \notin {on[1], on[2]} /\ on[1] # on[2] /\ on[3] \in {on[1], on[2]}

ListSound(s) == ~Mixed => IF Distinct THEN Linked(s) ELSE Looped(s)

Good(s) == s \in States /\ Usable(s) /\ Shares(s) /\ Calm(s) /\ ListSound(s)

(* What setup_reset_termios has done so far.                               *)
SetUpTo(n) ==
  /\ \A c \in Channels : raw[c] <=> c < n /\ on[c] # Nil
  /\ \A c \in Channels : open[c]
  /\ \A t \in Ttys : attr[t] = entry[t].desired
  /\ n <= 2 /\ on[1] = Nil => after[TtyHead] = Nil
  /\ n = 1 => after[TtyHead] = Nil
  /\ n = 2 /\ on[1] # Nil => after[TtyHead] = on[1] /\ after[on[1]] = Nil
  /\ n = 3 /\ on[2] = Nil =>
       IF on[1] = Nil THEN after[TtyHead] = Nil ELSE after[TtyHead] = on[1] /\ after[on[1]] = Nil
  /\ n = 3 /\ on[2] # Nil =>
       /\ after[TtyHead] = on[2]
       /\ after[on[2]] = on[1]
       /\ on[1] \notin {Nil, on[2]} => after[on[1]] = Nil

TtyInv ==
  /\ split \in BOOLEAN /\ on \in [Channels -> Ttys \cup {Nil}] /\ setup \in 1..4
  /\ sigcont \in BOOLEAN
  /\ Now \in States /\ Usable(Now) /\ Shares(Now) /\ ListSound(Now)
  /\ \A t \in Ttys : entry[t].suspended <=> run = "stopped" /\ entry[t].exists
  /\ run = "setup" \/ (run = "running" /\ ~sigcont) => Synced(Now)
  /\ run = "stopped" => \A t \in Ttys : attr[t] \in {"own", "shell"}
  /\ run = "exited" => \A c \in Channels : ~raw[c]
  /\ run = "setup" => SetUpTo(setup)
  /\ TableSound

----------------------------------------------------------------------------
(* ttysave_restore.                                                        *)

(* e with one channel less, as ttysave_restore leaves it.                  *)
Less(s, c) == Counted(s.entry[on[c]], c, -1)

LEMMA LessFields ==
  ASSUME NEW s \in States, NEW c \in Channels, on[c] \in Ttys
  PROVE  /\ Less(s, c).refs = s.entry[on[c]].refs - 1
         /\ Less(s, c).in = IF c = 1 THEN s.entry[on[c]].in - 1 ELSE s.entry[on[c]].in
         /\ Less(s, c).out = IF c = 1 THEN s.entry[on[c]].out ELSE s.entry[on[c]].out - 1
         /\ Less(s, c).exists = s.entry[on[c]].exists
         /\ Less(s, c).desired = s.entry[on[c]].desired
         /\ Less(s, c).suspended = s.entry[on[c]].suspended
BY DEF Less, Counted, States, Entries, Channels

LEMMA RestoreFields ==
  ASSUME NEW s \in States, NEW c \in Channels, on[c] \in Ttys,
         s.raw[c], s.open[c], s.run # "corrupt"
  PROVE  LET t == on[c]
             last == Less(s, c).refs = 0
             R == Restore(s, c)
             freed(p) == p \in Ttys \ {t} /\ ~s.entry[p].exists
         IN  /\ R.raw = [s.raw EXCEPT ![c] = FALSE]
             /\ R.open = s.open
             /\ R.attr = [s.attr EXCEPT ![t] =
                            IF last THEN "own" ELSE Updated(s.attr, t, Less(s, c))[t]]
             /\ R.entry = [s.entry EXCEPT ![t] =
                             IF last THEN NoEntry
                             ELSE [Less(s, c) EXCEPT !.desired = Desired(Less(s, c))]]
             /\ R.before = IF last /\ s.after[t] # Nil
                           THEN [s.before EXCEPT ![s.after[t]] = s.before[t]] ELSE s.before
             /\ R.after = IF last THEN [s.after EXCEPT ![s.before[t]] = s.after[t]] ELSE s.after
             /\ R.run = IF last /\ (freed(s.after[t]) \/ freed(s.before[t]))
                        THEN "corrupt" ELSE s.run
             /\ DOMAIN R = DOMAIN s
<1>1. Restore(s, c) = Released(s, c)
  BY DEF Restore
<1>2. DOMAIN Released(s, c) = DOMAIN s
  BY DEF Released, States
<1> QED
  BY <1>1, <1>2 DEF Released, Less

(* The wish of an entry depends on its counts only.                        *)
LEMMA DesiredFields ==
  ASSUME NEW e \in Entries, NEW f \in Entries, split \in BOOLEAN,
         e.refs = f.refs, e.in = f.in, e.out = f.out
  PROVE  Desired(e) = Desired(f)
BY DEF Desired

LEMMA DesiredType ==
  ASSUME NEW e \in Entries, split \in BOOLEAN
  PROVE  Desired(e) \in Attrs
BY DEF Desired, Entries, Attrs

LEMMA RestoreGood ==
  ASSUME NEW s, Good(s), NEW c \in Channels, split \in BOOLEAN,
         s.raw[c], s.open[c], s.run # "corrupt"
  PROVE  LET R == Restore(s, c)
         IN  /\ R \in States /\ Usable(R) /\ Shares(R) /\ Calm(R)
             /\ R.raw = [s.raw EXCEPT ![c] = FALSE] /\ R.open = s.open
             /\ Synced(s) => Synced(R)
<1> DEFINE t == on[c]
           R == Restore(s, c)
           L == Less(s, c)
           E == IF L.refs = 0 THEN NoEntry ELSE [L EXCEPT !.desired = Desired(L)]
<1>1. t \in Ttys /\ s \in States
  BY DEF Good, Usable
<1>2. /\ s.entry[t] \in Entries /\ s.raw \in [Channels -> BOOLEAN]
      /\ s.attr \in [Ttys -> Attrs] /\ s.entry \in [Ttys -> Entries]
  BY <1>1 DEF States
<1>3. /\ s.entry[t].in = Share(s, 1, t) /\ s.entry[t].out = Share(s, 2, t) + Share(s, 3, t)
      /\ s.entry[t].refs = s.entry[t].in + s.entry[t].out
      /\ s.entry[t].exists <=> s.entry[t].refs > 0
  BY <1>1 DEF Good, Shares
<1>4. c \in {1, 2, 3}
  BY DEF Channels
<1>5. /\ L.refs = s.entry[t].refs - 1
      /\ L.in = IF c = 1 THEN s.entry[t].in - 1 ELSE s.entry[t].in
      /\ L.out = IF c = 1 THEN s.entry[t].out ELSE s.entry[t].out - 1
      /\ L.exists = s.entry[t].exists /\ L.desired = s.entry[t].desired
      /\ L.suspended = s.entry[t].suspended
  BY <1>1, LessFields
<1>6. Share(s, c, t) = 1 /\ \A d \in {1, 2, 3} : Share(s, d, t) \in {0, 1}
  BY DEF Share
<1> HIDE DEF E, R, L, t
<1>7. L.refs \in Nat /\ L.in \in Nat /\ L.out \in Nat /\ L.refs = L.in + L.out
  <2>1. Share(s, 1, t) \in {0, 1} /\ Share(s, 2, t) \in {0, 1} /\ Share(s, 3, t) \in {0, 1}
    BY <1>6
  <2>2. CASE c = 1
    <3>1. Share(s, 1, t) = 1
      BY <1>6, <2>2
    <3>2. L.in = s.entry[t].in - 1 /\ L.out = s.entry[t].out
      BY <1>5, <2>2
    <3> QED
      BY <1>3, <1>5, <2>1, <3>1, <3>2
  <2>3. CASE c = 2
    BY SMTT(30), <1>3, <1>5, <1>6, <2>1, <2>3
  <2>4. CASE c = 3
    BY SMTT(30), <1>3, <1>5, <1>6, <2>1, <2>4
  <2> QED
    BY <1>4, <2>2, <2>3, <2>4
<1>8. L \in Entries
  <2>1. L = [s.entry[t] EXCEPT !.refs = L.refs, !.in = L.in, !.out = L.out]
    BY <1>1, <1>2 DEF L, t, Less, Counted, Entries
  <2> QED
    BY <1>2, <1>7, <2>1 DEF Entries
<1>9. /\ R.raw = [s.raw EXCEPT ![c] = FALSE] /\ R.open = s.open
      /\ R.attr = [s.attr EXCEPT ![t] = IF L.refs = 0 THEN "own" ELSE Updated(s.attr, t, L)[t]]
      /\ R.entry = [s.entry EXCEPT ![t] = E]
  BY <1>1, RestoreFields DEF R, L, E, t
<1>10. Desired(L) \in Attrs
  BY <1>8, DesiredType
<1>11. E \in Entries
  <2>1. NoEntry \in Entries
    BY DEF NoEntry, Entries, Attrs
  <2>2. [L EXCEPT !.desired = Desired(L)] \in Entries
    BY <1>8, <1>10 DEF Entries
  <2> QED
    BY <2>1, <2>2 DEF E
<1>12. R \in States
  <2>1. R.attr \in [Ttys -> Attrs]
    BY <1>1, <1>2, <1>9, <1>10 DEF Updated, Attrs
  <2>2. R.entry \in [Ttys -> Entries]
    BY <1>2, <1>9, <1>11
  <2>3. R.raw \in [Channels -> BOOLEAN] /\ R.open \in [Channels -> BOOLEAN]
    BY <1>1, <1>9 DEF States
  <2>4. /\ R.after \in [Ttys \cup {TtyHead} -> Ttys \cup {Nil}]
        /\ R.before \in [Ttys -> Ttys \cup {TtyHead, Nil}]
        /\ R.run \in Runs
    <3>1. /\ s.after \in [Ttys \cup {TtyHead} -> Ttys \cup {Nil}]
          /\ s.before \in [Ttys -> Ttys \cup {TtyHead, Nil}]
          /\ s.run \in Runs
      BY <1>1 DEF States
    <3>2. R.before = s.before \/ R.before = [s.before EXCEPT ![s.after[t]] = s.before[t]]
      BY <1>1, RestoreFields DEF R, t
    <3>3. R.after = s.after \/ R.after = [s.after EXCEPT ![s.before[t]] = s.after[t]]
      BY <1>1, RestoreFields DEF R, t
    <3>4. R.run = s.run \/ R.run = "corrupt"
      BY <1>1, RestoreFields DEF R, t
    <3> QED
      BY <1>1, <3>1, <3>2, <3>3, <3>4 DEF Runs
  <2>5. \/ R = s
        \/ R = [attr |-> R.attr, entry |-> R.entry, after |-> R.after, before |-> R.before,
                raw |-> R.raw, open |-> R.open, run |-> R.run]
    <3>1. R = s \/ R = Released(s, c)
      BY DEF Restore, R
    <3> QED
      BY <3>1 DEF Released
  <2> QED
    BY <2>1, <2>2, <2>3, <2>4, <2>5, <1>1 DEF States
<1>13. Usable(R)
  BY <1>2, <1>9 DEF Usable, Good
<1>14. Calm(R)
  <2>1. ~s.entry[t].suspended
    BY <1>1 DEF Calm, Good
  <2>2. ~E.suspended
    BY <1>5, <1>8, <2>1 DEF E, NoEntry, Entries
  <2> QED
    BY <1>2, <1>9, <2>2 DEF Calm, Good
<1>15. \A u \in Ttys \ {t} : R.entry[u] = s.entry[u] /\ R.attr[u] = s.attr[u]
  BY <1>2, <1>9
<1>16. R.entry[t] = E /\ R.attr[t] = IF L.refs = 0 THEN "own" ELSE Updated(s.attr, t, L)[t]
  BY <1>1, <1>2, <1>9
<1>17. \A u \in Ttys \ {t} : \A d \in Channels : Share(R, d, u) = Share(s, d, u)
  BY <1>2, <1>9 DEF Share, t
<1>18. \A d \in Channels : Share(R, d, t) = IF d = c THEN 0 ELSE Share(s, d, t)
  BY <1>2, <1>9 DEF Share, t
<1>19. /\ E.in = L.in /\ E.out = L.out /\ E.refs = L.refs
       /\ E.exists <=> E.refs > 0
       /\ E.desired = Desired(E)
  <2>1. CASE L.refs = 0
    <3>1. L.in = 0 /\ L.out = 0
      BY <1>7, <2>1
    <3> QED
      BY <2>1, <3>1 DEF NoEntry, Desired, E
  <2>2. CASE L.refs # 0
    <3>1. E = [L EXCEPT !.desired = Desired(L)]
      BY <2>2 DEF E
    <3>2. /\ E.in = L.in /\ E.out = L.out /\ E.refs = L.refs /\ E.exists = L.exists
          /\ E.desired = Desired(L)
      BY <1>8, <3>1 DEF Entries
    <3>3. E.exists <=> E.refs > 0
      <4>1. E.exists <=> s.entry[t].exists
        BY <1>5, <3>2
      <4>2. s.entry[t].refs > 0 /\ E.refs > 0
        BY <1>2, <1>5, <1>7, <2>2, <3>2 DEF Entries
      <4> QED
        BY <1>3, <4>1, <4>2
    <3>4. Desired(E) = Desired(L)
      BY <1>8, <1>11, <3>2, DesiredFields
    <3> QED
      BY <3>2, <3>3, <3>4
  <2> QED
    BY <2>1, <2>2
<1>20. /\ E.in = Share(R, 1, t) /\ E.out = Share(R, 2, t) + Share(R, 3, t)
       /\ E.refs = E.in + E.out
  <2>1. /\ Share(R, 1, t) = IF c = 1 THEN 0 ELSE Share(s, 1, t)
        /\ Share(R, 2, t) = IF c = 2 THEN 0 ELSE Share(s, 2, t)
        /\ Share(R, 3, t) = IF c = 3 THEN 0 ELSE Share(s, 3, t)
    BY <1>18 DEF Channels
  <2>2. Share(s, 1, t) \in {0, 1} /\ Share(s, 2, t) \in {0, 1} /\ Share(s, 3, t) \in {0, 1}
    BY <1>6
  <2>3. CASE c = 1
    BY <1>3, <1>5, <1>6, <1>7, <1>19, <2>1, <2>2, <2>3
  <2>4. CASE c = 2
    BY <1>3, <1>5, <1>6, <1>7, <1>19, <2>1, <2>2, <2>4
  <2>5. CASE c = 3
    BY <1>3, <1>5, <1>6, <1>7, <1>19, <2>1, <2>2, <2>5
  <2> QED
    BY <1>4, <2>3, <2>4, <2>5
<1>21. Shares(R)
  <2> SUFFICES ASSUME NEW u \in Ttys
               PROVE  /\ R.entry[u].in = Share(R, 1, u)
                      /\ R.entry[u].out = Share(R, 2, u) + Share(R, 3, u)
                      /\ R.entry[u].refs = R.entry[u].in + R.entry[u].out
                      /\ R.entry[u].exists <=> R.entry[u].refs > 0
                      /\ R.entry[u].desired = Desired(R.entry[u])
                      /\ R.entry[u].refs = 0 => R.attr[u] \in {"own", "shell"}
    BY DEF Shares
  <2>1. CASE u = t
    BY <2>1, <1>16, <1>19, <1>20
  <2>2. CASE u # t
    BY <2>2, <1>15, <1>17 DEF Good, Shares, Channels
  <2> QED
    BY <2>1, <2>2
<1>22. ASSUME Synced(s) PROVE Synced(R)
  <2>1. ASSUME R.entry[t].exists PROVE R.attr[t] = R.entry[t].desired
    <3>1. L.refs # 0
      BY <2>1, <1>16, <1>19, <1>7
    <3>2. R.attr[t] = Updated(s.attr, t, L)[t] /\ E.desired = Desired(L)
      BY <3>1, <1>8, <1>16 DEF E, Entries
    <3>3. s.attr[t] = L.desired
      <4>1. s.entry[t].refs > 0
        BY <3>1, <1>2, <1>5, <1>7 DEF Entries
      <4> QED
        BY <4>1, <1>1, <1>3, <1>5, <1>22 DEF Synced
    <3> QED
      BY <3>2, <3>3, <1>1, <1>2, <1>16 DEF Updated
  <2> QED
    BY <2>1, <1>15, <1>22 DEF Synced
<1> QED
  BY <1>9, <1>12, <1>13, <1>14, <1>21, <1>22 DEF R

(* Unless the channels are mixed, no freed entry is met, and the list      *)
(* stays as it should be.                                                  *)
LEMMA RestoreList ==
  ASSUME NEW s, Good(s), NEW c \in Channels,
         s.raw[c], s.open[c], s.run # "corrupt", ~Mixed
  PROVE  ListSound(Restore(s, c)) /\ Restore(s, c).run = s.run
<1> DEFINE t == on[c]
           R == Restore(s, c)
           last == Less(s, c).refs = 0
           next == s.after[t]
           prev == s.before[t]
<1>1. t \in Ttys /\ s \in States
  BY DEF Good, Usable
<1>2. /\ s.entry \in [Ttys -> Entries]
      /\ s.after \in [Ttys \cup {TtyHead} -> Ttys \cup {Nil}]
      /\ s.before \in [Ttys -> Ttys \cup {TtyHead, Nil}]
  BY <1>1 DEF States
<1>3. s.entry[t].exists
  <2>1. Share(s, c, t) = 1 /\ c \in {1, 2, 3} /\ \A d \in {1, 2, 3} : Share(s, d, t) \in {0, 1}
    BY DEF Share, Channels
  <2>2. /\ s.entry[t].refs = Share(s, 1, t) + (Share(s, 2, t) + Share(s, 3, t))
        /\ s.entry[t].exists <=> s.entry[t].refs > 0
    BY <1>1 DEF Good, Shares
  <2> HIDE DEF t
  <2>3. Share(s, 1, t) + (Share(s, 2, t) + Share(s, 3, t)) > 0
    BY <2>1
  <2> QED
    BY <2>2, <2>3
<1>4. /\ R.entry = [s.entry EXCEPT ![t] =
                      IF last THEN NoEntry
                      ELSE [Less(s, c) EXCEPT !.desired = Desired(Less(s, c))]]
      /\ R.before = IF last /\ next # Nil THEN [s.before EXCEPT ![next] = prev] ELSE s.before
      /\ R.after = IF last THEN [s.after EXCEPT ![prev] = next] ELSE s.after
      /\ R.run = IF last /\ \/ next \in Ttys \ {t} /\ ~s.entry[next].exists
                            \/ prev \in Ttys \ {t} /\ ~s.entry[prev].exists
                 THEN "corrupt" ELSE s.run
  BY <1>1, RestoreFields
<1>5. /\ \A u \in Ttys \ {t} : R.entry[u] = s.entry[u]
      /\ last => ~R.entry[t].exists
      /\ ~last => (R.entry[t].exists <=> s.entry[t].exists)
  <2>1. \A u \in Ttys \ {t} : R.entry[u] = s.entry[u]
    BY <1>1, <1>2, <1>4
  <2>2. last => ~R.entry[t].exists
    BY <1>1, <1>2, <1>4 DEF NoEntry
  <2>3. ASSUME ~last PROVE R.entry[t].exists <=> s.entry[t].exists
    BY <1>1, <1>2, <1>4, <2>3 DEF Less, Counted, Entries
  <2> QED
    BY <2>1, <2>2, <2>3
<1> HIDE DEF t, R, last, next, prev
<1>6. CASE ~last
  BY <1>1, <1>4, <1>5, <1>6 DEF Good, ListSound, Linked, Looped, R
<1>7. CASE last /\ Distinct
  <2>1. Linked(s)
    BY <1>7 DEF Good, ListSound
  <2>2. /\ next # Nil => next \in Ttys /\ s.entry[next].exists /\ s.before[next] = t
        /\ prev # TtyHead => prev \in Ttys /\ s.entry[prev].exists
        /\ s.after[prev] = t /\ prev \in Ttys \cup {TtyHead}
        /\ next = t <=> prev = t
    <3>1. t # Nil
      BY <1>1, TtyAssumption
    <3> QED
      BY <1>1, <1>2, <1>3, <2>1, <3>1, TtyAssumption DEF Linked, next, prev
  <2>3. R.run = s.run
    BY <1>4, <2>2, TtyAssumption
  <2>4. /\ R.after = [s.after EXCEPT ![prev] = next]
        /\ R.before = IF next # Nil THEN [s.before EXCEPT ![next] = prev] ELSE s.before
    BY <1>4, <1>7
  <2>5. ASSUME R.after[TtyHead] # Nil
        PROVE  R.entry[R.after[TtyHead]].exists /\ R.before[R.after[TtyHead]] = TtyHead
    <3>1. CASE prev = TtyHead
      <4>1. R.after[TtyHead] = next /\ next # t
        BY <1>1, <1>2, <2>2, <2>4, <3>1, TtyAssumption
      <4> QED
        BY <1>2, <1>5, <2>2, <2>4, <2>5, <3>1, <4>1
    <3>2. CASE prev # TtyHead
      <4>1. R.after[TtyHead] = s.after[TtyHead]
        BY <1>2, <2>2, <2>4, <3>2
      <4>2. /\ s.after[TtyHead] \in Ttys /\ s.entry[s.after[TtyHead]].exists
            /\ s.before[s.after[TtyHead]] = TtyHead
        BY <1>2, <2>1, <2>5, <4>1 DEF Linked
      <4>3. s.after[TtyHead] # t /\ s.after[TtyHead] # next
        BY <1>1, <2>2, <3>2, <4>2, TtyAssumption DEF prev
      <4> QED
        BY <1>2, <1>5, <2>4, <4>1, <4>2, <4>3
    <3> QED
      BY <3>1, <3>2
  <2>6. ASSUME NEW u \in Ttys, R.entry[u].exists
        PROVE  /\ R.after[u] # Nil =>
                    R.entry[R.after[u]].exists /\ R.before[R.after[u]] = u
               /\ R.before[u] # TtyHead => R.before[u] \in Ttys /\ R.entry[R.before[u]].exists
               /\ R.after[R.before[u]] = u
    <3>1. u # t /\ s.entry[u].exists
      BY <1>5, <1>7, <2>6
    <3>2. /\ s.after[u] # Nil =>
               s.entry[s.after[u]].exists /\ s.before[s.after[u]] = u
          /\ s.before[u] # TtyHead => s.before[u] \in Ttys /\ s.entry[s.before[u]].exists
          /\ s.after[s.before[u]] = u
      BY <2>1, <3>1 DEF Linked
    <3>3. s.after[u] \in Ttys \cup {Nil} /\ s.before[u] \in Ttys \cup {TtyHead}
      BY <1>2, <3>2
    <3>4. next # u => s.before[u] # t
      BY <3>2 DEF next
    <3>5. prev # u => s.after[u] # t
      BY <1>1, <3>2, TtyAssumption DEF prev
    <3>6. R.after[u] # Nil =>
            R.entry[R.after[u]].exists /\ R.before[R.after[u]] = u
      <4>1. CASE u = prev
        <5>1. R.after[u] = next
          BY <1>2, <2>4, <4>1, TtyAssumption
        <5>2. next # t
          BY <2>2, <3>1, <4>1
        <5> QED
          BY <1>2, <1>5, <2>2, <2>4, <4>1, <5>1, <5>2
      <4>2. CASE u # prev
        <5>1. R.after[u] = s.after[u] /\ s.after[u] # t
          BY <1>2, <2>4, <3>5, <4>2
        <5>2. s.after[u] # Nil => s.after[u] # next
          BY <2>2, <3>1, <3>2
        <5> QED
          BY <1>2, <1>5, <2>4, <3>2, <3>3, <5>1, <5>2
      <4> QED
        BY <4>1, <4>2
    <3>7. /\ R.before[u] # TtyHead => R.before[u] \in Ttys /\ R.entry[R.before[u]].exists
          /\ R.after[R.before[u]] = u
      <4>1. CASE u = next
        <5>1. R.before[u] = prev /\ R.after[prev] = next
          BY <1>2, <2>2, <2>4, <4>1, TtyAssumption
        <5>2. prev # t
          BY <2>2, <3>1, <4>1
        <5> QED
          BY <1>5, <2>2, <4>1, <5>1, <5>2
      <4>2. CASE u # next
        <5>1. R.before[u] = s.before[u] /\ s.before[u] # t
          BY <1>2, <2>4, <3>4, <4>2
        <5>2. s.before[u] # prev
          BY <2>2, <3>1, <3>2
        <5>3. R.after[s.before[u]] = s.after[s.before[u]]
          BY <1>2, <2>4, <3>3, <5>2
        <5> QED
          BY <1>5, <3>2, <5>1, <5>3
      <4> QED
        BY <4>1, <4>2
    <3> QED
      BY <3>6, <3>7
  <2>7. Linked(R)
    BY <2>5, <2>6 DEF Linked
  <2> QED
    BY <1>7, <2>3, <2>7 DEF ListSound, R
<1>8. CASE last /\ ~Distinct
  <2>1. Looped(s)
    BY <1>8 DEF Good, ListSound
  <2>2. prev = TtyHead /\ next \in {Nil, t}
    BY <1>1, <1>3, <2>1 DEF Looped, prev, next
  <2>3. R.run = s.run
    BY <1>4, <2>2, TtyAssumption
  <2>4. \A u \in Ttys : R.entry[u].exists => u # t /\ s.entry[u].exists
    BY <1>5, <1>8
  <2>5. \A u \in Ttys \ {t} : R.after[u] = s.after[u] /\ R.before[u] = s.before[u]
    BY <1>1, <1>2, <1>4, <2>2, TtyAssumption
  <2>6. Looped(R)
    BY <2>1, <2>4, <2>5 DEF Looped
  <2> QED
    BY <1>8, <2>3, <2>6 DEF ListSound, R
<1> QED
  BY <1>6, <1>7, <1>8

(* ttysave_restore for a channel in any state.                             *)
LEMMA RestoreAny ==
  ASSUME NEW s, Good(s), NEW c \in Channels, split \in BOOLEAN
  PROVE  LET R == Restore(s, c)
         IN  /\ Good(R) /\ R.open = s.open
             /\ R.run = s.run \/ (R.run = "corrupt" /\ Mixed)
             /\ R.run # "corrupt" =>
                  ~R.raw[c] /\ \A d \in Channels : R.raw[d] => s.raw[d]
             /\ Synced(s) => Synced(R)
<1> DEFINE R == Restore(s, c)
<1>1. s \in States /\ s.raw \in [Channels -> BOOLEAN] /\ (s.raw[c] => s.open[c])
  BY DEF Good, Usable, States
<1>2. CASE s.raw[c] /\ s.run # "corrupt"
  <2>1. /\ R \in States /\ Usable(R) /\ Shares(R) /\ Calm(R)
        /\ R.raw = [s.raw EXCEPT ![c] = FALSE] /\ R.open = s.open
        /\ Synced(s) => Synced(R)
    BY <1>1, <1>2, RestoreGood
  <2>2. ~Mixed => ListSound(R) /\ R.run = s.run
    BY <1>1, <1>2, RestoreList
  <2>3. ListSound(R)
    BY <2>2 DEF ListSound
  <2>4. R.run = s.run \/ R.run = "corrupt"
    BY <1>1, <1>2, RestoreFields DEF Good, Usable
  <2>5. R.run = s.run \/ (R.run = "corrupt" /\ Mixed)
    BY <2>2, <2>4
  <2>6. ~R.raw[c] /\ \A d \in Channels : R.raw[d] => s.raw[d]
    BY <1>1, <2>1
  <2>7. Good(R)
    BY <2>1, <2>3 DEF Good
  <2> HIDE DEF R
  <2>8. QED
    BY <2>1, <2>5, <2>6, <2>7 DEF R
<1>3. CASE ~s.raw[c] \/ s.run = "corrupt"
  <2>1. R = s
    BY <1>3 DEF Restore
  <2> QED
    BY <1>3, <2>1
<1> QED
  BY <1>2, <1>3

(* cleanup_reset_termios leaves no channel raw, or stops at a freed entry. *)
LEMMA CleanupGood ==
  ASSUME Good(Now), run # "corrupt", split \in BOOLEAN
  PROVE  /\ Good(Cleanup)
         /\ \/ Cleanup.run = "exited" /\ \A c \in Channels : ~Cleanup.raw[c]
            \/ Cleanup.run = "corrupt" /\ Mixed
<1> DEFINE R1 == Restore(Now, 1)
           R2 == Restore(R1, 2)
           R3 == Restore(R2, 3)
           C == [R3 EXCEPT !.run = IF @ = "corrupt" THEN @ ELSE "exited"]
<1>0. 1 \in Channels /\ 2 \in Channels /\ 3 \in Channels /\ Channels = {1, 2, 3}
  BY DEF Channels
<1>1. /\ Good(R1)
      /\ R1.run = Now.run \/ (R1.run = "corrupt" /\ Mixed)
      /\ R1.run # "corrupt" => ~R1.raw[1]
  BY <1>0, RestoreAny
<1> HIDE DEF R1
<1>2. /\ Good(R2)
      /\ R2.run = R1.run \/ (R2.run = "corrupt" /\ Mixed)
      /\ R2.run # "corrupt" => ~R2.raw[2] /\ (R2.raw[1] => R1.raw[1])
  BY <1>0, <1>1, RestoreAny
<1> HIDE DEF R2
<1>3. /\ Good(R3)
      /\ R3.run = R2.run \/ (R3.run = "corrupt" /\ Mixed)
      /\ R3.run # "corrupt" => ~R3.raw[3] /\ (R3.raw[1] => R2.raw[1]) /\ (R3.raw[2] => R2.raw[2])
  BY <1>0, <1>2, RestoreAny
<1> HIDE DEF R3
<1>4. Now.run # "corrupt"
  BY DEF Now
<1>5. R3.run # "corrupt" => ~R3.raw[1] /\ ~R3.raw[2] /\ ~R3.raw[3]
  BY <1>1, <1>2, <1>3
<1>6. R3.run = "corrupt" => Mixed
  BY <1>1, <1>2, <1>3, <1>4
<1>7. R3 \in States
  BY <1>3 DEF Good
<1>8. /\ C.attr = R3.attr /\ C.entry = R3.entry /\ C.after = R3.after /\ C.before = R3.before
      /\ C.raw = R3.raw /\ C.open = R3.open
      /\ C.run = IF R3.run = "corrupt" THEN "corrupt" ELSE "exited"
      /\ C \in States
  BY <1>7 DEF States, Runs
<1>9. Cleanup = C
  BY DEF Cleanup, R1, R2, R3
<1> HIDE DEF C
<1>10. Good(C)
  BY <1>3, <1>8 DEF Good, Usable, Shares, Share, Calm, ListSound, Linked, Looped
<1> QED
  BY <1>0, <1>5, <1>6, <1>8, <1>9, <1>10

(* The variables become what a record says.                                *)
LEMMA BecomesNow ==
  ASSUME NEW s, s \in States, Becomes(s)
  PROVE  Now' = s
BY DEF Becomes, Now, States

(* The invariant, put together again after a step that takes the variables *)
(* to a record.                                                            *)
LEMMA BecomesInv ==
  ASSUME TtyInv, NEW s, Good(s), Becomes(s), UNCHANGED <<split, on, setup>>, sigcont' \in BOOLEAN,
         s.run \in {"running", "halted", "exited", "corrupt"},
         s.run = "running" /\ ~sigcont' => Synced(s),
         s.run = "exited" => \A c \in Channels : ~s.raw[c],
         s.run = "corrupt" => Mixed
  PROVE  TtyInv'
<1>1. Now' = s
  BY BecomesNow DEF Good
<1>2. run' = s.run /\ entry' = s.entry /\ attr' = s.attr /\ raw' = s.raw
  BY DEF Becomes
<1>3. Now' \in States
  BY <1>1 DEF Good
<1>4. Usable(Now)' /\ ListSound(Now)'
  BY <1>1 DEF Good, Usable, ListSound, Linked, Looped, Distinct, Mixed
<1>5. Shares(Now)'
  BY <1>1 DEF Good, Shares, Share, Desired
<1>6. Synced(s) => Synced(Now)'
  BY <1>1 DEF Synced
<1>7. \A t \in Ttys : entry'[t].suspended <=> run' = "stopped" /\ entry'[t].exists
  BY <1>2 DEF Good, Calm
<1>8. TableSound'
  BY <1>2 DEF TableSound, Mixed
<1> QED
  BY <1>2, <1>3, <1>4, <1>5, <1>6, <1>7, <1>8 DEF TtyInv

----------------------------------------------------------------------------
(* The steps after setup.                                                  *)

LEMMA InvGood ==
  ASSUME TtyInv, run # "stopped"
  PROVE  Good(Now)
BY DEF TtyInv, Good, Calm, Now

LEMMA ExitInv ==
  ASSUME TtyInv, Exit
  PROVE  TtyInv'
<1>1. Good(Now) /\ run # "corrupt" /\ split \in BOOLEAN
  BY InvGood DEF Exit, TtyInv
<1>2. /\ Good(Cleanup)
      /\ \/ Cleanup.run = "exited" /\ \A c \in Channels : ~Cleanup.raw[c]
         \/ Cleanup.run = "corrupt" /\ Mixed
  BY <1>1, CleanupGood
<1>3. Becomes(Cleanup) /\ UNCHANGED <<split, on, setup>> /\ sigcont' \in BOOLEAN
  BY DEF Exit, TtyInv
<1> QED
  BY <1>2, <1>3, BecomesInv

LEMMA ResetFailsInv ==
  ASSUME TtyInv, ResetFails
  PROVE  TtyInv'
<1>1. Good(Now) /\ run # "corrupt" /\ split \in BOOLEAN
  BY InvGood DEF ResetFails, TtyInv
<1>2. /\ Good(Cleanup)
      /\ \/ Cleanup.run = "exited" /\ \A c \in Channels : ~Cleanup.raw[c]
         \/ Cleanup.run = "corrupt" /\ Mixed
  BY <1>1, CleanupGood
<1>3. Becomes(Cleanup) /\ UNCHANGED <<split, on, setup>> /\ sigcont' \in BOOLEAN
  BY DEF ResetFails, TtyInv
<1> QED
  BY <1>2, <1>3, BecomesInv

LEMMA CloseInv ==
  ASSUME TtyInv, NEW c \in Channels, channel_close(c)
  PROVE  TtyInv'
<1> DEFINE R == Restore(Now, c)
           C == [R EXCEPT !.open[c] = FALSE]
<1>1. Good(Now) /\ run = "running" /\ split \in BOOLEAN /\ sigcont' = sigcont /\ sigcont \in BOOLEAN
  BY InvGood DEF channel_close, TtyInv
<1>2. /\ Good(R) /\ R.open = open
      /\ R.run = "running" \/ (R.run = "corrupt" /\ Mixed)
      /\ R.run # "corrupt" => ~R.raw[c]
      /\ Synced(Now) => Synced(R)
  BY <1>1, RestoreAny DEF Now
<1>3. Becomes(IF R.run = "corrupt" THEN R ELSE C) /\ UNCHANGED <<split, on, setup>>
  BY DEF channel_close
<1>4. ~sigcont => Synced(Now)
  BY <1>1 DEF TtyInv
<1> HIDE DEF R
<1>5. CASE R.run = "corrupt"
  BY <1>1, <1>2, <1>3, <1>5, BecomesInv
<1>6. CASE R.run # "corrupt"
  <2>1. R \in States
    BY <1>2 DEF Good
  <2>2. /\ C.attr = R.attr /\ C.entry = R.entry /\ C.after = R.after /\ C.before = R.before
        /\ C.raw = R.raw /\ C.run = R.run /\ C.open = [R.open EXCEPT ![c] = FALSE]
        /\ C \in States
    BY <2>1 DEF States
  <2>3. Becomes(C)
    BY <1>3, <1>6
  <2> HIDE DEF C
  <2>4. Usable(C)
    BY <1>2, <1>6, <2>1, <2>2 DEF Good, Usable, States
  <2>5. Shares(C) /\ Calm(C) /\ ListSound(C) /\ (Synced(R) => Synced(C))
    BY <1>2, <2>2 DEF Good, Shares, Share, Calm, ListSound, Linked, Looped, Synced
  <2>6. Good(C)
    BY <2>2, <2>4, <2>5 DEF Good
  <2> QED
    BY <1>1, <1>2, <1>3, <1>4, <1>6, <2>2, <2>3, <2>5, <2>6, BecomesInv
<1> QED
  BY <1>5, <1>6

(* The callbacks reach the terminals that have an entry.                   *)
LEMMA ReachedExists ==
  ASSUME TtyInv
  PROVE  /\ Reached = {t \in Ttys : entry[t].exists}
         /\ \A t \in Ttys : Users(t) = {c \in Channels : raw[c] /\ on[c] = t}
<1>1. \A t \in Ttys : Users(t) = {c \in Channels : raw[c] /\ on[c] = t}
  BY DEF TtyInv, Users, Usable, Now
<1>2. \A t \in Ttys : t \in Reached <=> \E c \in Channels : raw[c] /\ on[c] = t
  BY DEF TtyInv, Reached, Usable, Now
<1>3. ASSUME NEW t \in Ttys
      PROVE  entry[t].exists <=> \E c \in Channels : raw[c] /\ on[c] = t
  <2>1. /\ entry[t].refs = Share(Now, 1, t) + (Share(Now, 2, t) + Share(Now, 3, t))
        /\ entry[t].exists <=> entry[t].refs > 0
    BY DEF TtyInv, Shares, Now
  <2>2. \A c \in {1, 2, 3} : Share(Now, c, t) = IF raw[c] /\ on[c] = t THEN 1 ELSE 0
    BY DEF Share, Now
  <2>3. Share(Now, 1, t) + (Share(Now, 2, t) + Share(Now, 3, t)) > 0
          <=> \E c \in {1, 2, 3} : raw[c] /\ on[c] = t
    BY <2>2
  <2>4. Channels = {1, 2, 3}
    BY DEF Channels
  <2> QED
    BY <2>1, <2>3, <2>4
<1>4. Reached \subseteq Ttys
  BY DEF Reached
<1> QED
  BY <1>1, <1>2, <1>3, <1>4

(* The parts of the invariant that a change of the terminals alone, and of *)
(* whether they are suspended, does not touch.                             *)
SameList ==
  /\ UNCHANGED <<split, on, after, before, raw, open, setup>>
  /\ attr' \in [Ttys -> Attrs] /\ entry' \in [Ttys -> Entries] /\ run' \in Runs
  /\ sigcont' \in BOOLEAN
  /\ \A t \in Ttys :
       /\ entry'[t].refs = entry[t].refs /\ entry'[t].in = entry[t].in
       /\ entry'[t].out = entry[t].out /\ entry'[t].exists = entry[t].exists
       /\ entry'[t].desired = entry[t].desired
       /\ entry[t].refs = 0 => attr'[t] \in {"own", "shell"}

LEMMA SameListInv ==
  ASSUME TtyInv, SameList, run' \in {"running", "stopped", "halted"},
         \A t \in Ttys : entry'[t].suspended <=> run' = "stopped" /\ entry[t].exists,
         run' = "running" /\ ~sigcont' =>
           \A t \in Ttys : entry[t].exists => attr'[t] = entry[t].desired,
         run' = "stopped" => \A t \in Ttys : attr'[t] \in {"own", "shell"}
  PROVE  TtyInv'
<1>1. Now' \in States
  BY DEF TtyInv, SameList, Now, States
<1>2. Usable(Now)'
  BY DEF TtyInv, SameList, Now, Usable
<1>3. ListSound(Now)'
  BY DEF TtyInv, SameList, Now, ListSound, Linked, Looped, Distinct, Mixed, States
<1>4. Shares(Now)'
  <2> SUFFICES ASSUME NEW t \in Ttys
               PROVE  /\ entry'[t].in = Share(Now, 1, t)'
                      /\ entry'[t].out = Share(Now, 2, t)' + Share(Now, 3, t)'
                      /\ entry'[t].refs = entry'[t].in + entry'[t].out
                      /\ entry'[t].exists <=> entry'[t].refs > 0
                      /\ entry'[t].desired = Desired(entry[t])'
                      /\ entry'[t].refs = 0 => attr'[t] \in {"own", "shell"}
    BY DEF Shares, Now
  <2>1. Share(Now, 1, t)' = Share(Now, 1, t) /\ Share(Now, 2, t)' = Share(Now, 2, t)
        /\ Share(Now, 3, t)' = Share(Now, 3, t)
    BY DEF SameList, Share, Now
  <2>2. /\ entry[t].in = Share(Now, 1, t) /\ entry[t].out = Share(Now, 2, t) + Share(Now, 3, t)
        /\ entry[t].refs = entry[t].in + entry[t].out
        /\ entry[t].exists <=> entry[t].refs > 0
        /\ entry[t].desired = Desired(entry[t])
    BY DEF TtyInv, Shares, Now
  <2>3. Desired(entry[t])' = Desired(entry[t])
    BY DEF SameList, Desired
  <2>4. /\ entry'[t].refs = entry[t].refs /\ entry'[t].in = entry[t].in
        /\ entry'[t].out = entry[t].out /\ (entry'[t].exists <=> entry[t].exists)
        /\ entry'[t].desired = entry[t].desired
        /\ entry[t].refs = 0 => attr'[t] \in {"own", "shell"}
    BY DEF SameList
  <2> QED
    BY <2>1, <2>2, <2>3, <2>4
<1>5. \A t \in Ttys : entry'[t].exists <=> entry[t].exists
  BY DEF SameList
<1>6. \A t \in Ttys : entry'[t].suspended <=> run' = "stopped" /\ entry'[t].exists
  BY <1>5
<1>7. run' = "running" /\ ~sigcont' => Synced(Now)'
  BY <1>5 DEF SameList, Synced, Now
<1> QED
  BY <1>1, <1>2, <1>3, <1>4, <1>6, <1>7 DEF TtyInv, SameList, TableSound

LEMMA EntryFacts ==
  ASSUME TtyInv
  PROVE  /\ attr \in [Ttys -> Attrs] /\ entry \in [Ttys -> Entries] /\ run \in Runs
         /\ sigcont \in BOOLEAN
         /\ \A t \in Ttys : entry[t].exists <=> entry[t].refs > 0
         /\ \A t \in Ttys : entry[t].refs = 0 => attr[t] \in {"own", "shell"}
         /\ \A t \in Ttys : entry[t].refs # 0 => entry[t].exists
<1>1. /\ attr \in [Ttys -> Attrs] /\ entry \in [Ttys -> Entries] /\ run \in Runs
      /\ sigcont \in BOOLEAN
  BY DEF TtyInv, Now, States
<1>2. /\ \A t \in Ttys : entry[t].exists <=> entry[t].refs > 0
      /\ \A t \in Ttys : entry[t].refs = 0 => attr[t] \in {"own", "shell"}
  BY DEF TtyInv, Now, Shares
<1>3. \A t \in Ttys : entry[t].refs \in Nat
  BY <1>1 DEF Entries
<1>4. \A t \in Ttys : entry[t].refs # 0 => entry[t].exists
  BY <1>2, <1>3
<1> QED
  BY <1>1, <1>2, <1>4

LEMMA SuspendInv ==
  ASSUME TtyInv, Suspend
  PROVE  TtyInv'
<1>1. Reached = {t \in Ttys : entry[t].exists}
  BY ReachedExists
<1>2. \A t \in Ttys : ~entry[t].suspended
  BY DEF TtyInv, Suspend
<1>3. \A t \in Ttys : attr'[t] \in {"own", "shell"}
  BY <1>1, <1>2, EntryFacts DEF Suspend
<1>4. attr' \in [Ttys -> Attrs]
  BY <1>3 DEF Suspend, Attrs
<1>5. \A t \in Ttys : entry'[t] = IF entry[t].exists THEN [entry[t] EXCEPT !.suspended = TRUE]
                                  ELSE entry[t]
  BY <1>1 DEF Suspend
<1>6. \A t \in Ttys : entry[t] \in Entries
  BY EntryFacts
<1>7. \A t \in Ttys :
        /\ entry'[t] \in Entries
        /\ entry'[t].refs = entry[t].refs /\ entry'[t].in = entry[t].in
        /\ entry'[t].out = entry[t].out /\ entry'[t].exists = entry[t].exists
        /\ entry'[t].desired = entry[t].desired
  BY <1>5, <1>6 DEF Entries
<1>8. \A t \in Ttys : entry'[t].suspended <=> entry[t].exists
  BY <1>2, <1>5, <1>6 DEF Entries
<1>9. entry' \in [Ttys -> Entries]
  BY <1>7 DEF Suspend
<1>10. SameList
  BY <1>3, <1>4, <1>7, <1>9, EntryFacts DEF SameList, Suspend, Runs
<1> QED
  BY <1>3, <1>8, <1>10, SameListInv DEF Suspend

(* Resume and Sigcont both leave the reached terminals as they should be.  *)
LEMMA BackInv ==
  ASSUME TtyInv, run' = "running", sigcont' = FALSE,
         UNCHANGED <<split, on, after, before, raw, open, setup>>,
         attr' = [t \in Ttys |-> IF entry[t].exists THEN entry[t].desired ELSE attr[t]],
         entry' = [t \in Ttys |-> IF entry[t].exists THEN [entry[t] EXCEPT !.suspended = FALSE]
                                  ELSE entry[t]]
  PROVE  TtyInv'
<1>1. \A t \in Ttys : entry[t] \in Entries
  BY EntryFacts
<1>2. \A t \in Ttys :
        /\ entry'[t] \in Entries
        /\ entry'[t].refs = entry[t].refs /\ entry'[t].in = entry[t].in
        /\ entry'[t].out = entry[t].out /\ entry'[t].exists = entry[t].exists
        /\ entry'[t].desired = entry[t].desired
  BY <1>1 DEF Entries
<1>3. \A t \in Ttys : ~entry[t].exists => ~entry[t].suspended
  BY DEF TtyInv
<1>4. \A t \in Ttys : ~entry'[t].suspended
  BY <1>1, <1>3 DEF Entries
<1>5. attr' \in [Ttys -> Attrs]
  BY <1>1, EntryFacts DEF Entries
<1>6. \A t \in Ttys : entry[t].refs = 0 => attr'[t] \in {"own", "shell"}
  <2>1. \A t \in Ttys : entry[t].refs = 0 => ~entry[t].exists
    BY EntryFacts
  <2> QED
    BY <2>1, EntryFacts
<1>7. entry' \in [Ttys -> Entries]
  BY <1>2
<1>8. SameList
  BY <1>2, <1>5, <1>6, <1>7 DEF SameList, Runs
<1>9. \A t \in Ttys : entry[t].exists => attr'[t] = entry[t].desired
  OBVIOUS
<1> QED
  BY <1>4, <1>8, <1>9, SameListInv

LEMMA ResumeInv ==
  ASSUME TtyInv, Resume
  PROVE  TtyInv'
<1>1. Reached = {t \in Ttys : entry[t].exists}
  BY ReachedExists
<1>2. \A t \in Ttys : entry[t].suspended <=> entry[t].exists
  BY DEF TtyInv, Resume
<1>3. attr' = [t \in Ttys |-> IF entry[t].exists THEN entry[t].desired ELSE attr[t]]
  BY <1>1, <1>2 DEF Resume
<1>4. entry' = [t \in Ttys |-> IF entry[t].exists THEN [entry[t] EXCEPT !.suspended = FALSE]
                               ELSE entry[t]]
  BY <1>1 DEF Resume
<1> QED
  BY <1>3, <1>4, BackInv DEF Resume

LEMMA SigcontInv ==
  ASSUME TtyInv, Sigcont
  PROVE  TtyInv'
<1>1. Reached = {t \in Ttys : entry[t].exists}
  BY ReachedExists
<1>2. attr' = [t \in Ttys |-> IF entry[t].exists THEN entry[t].desired ELSE attr[t]]
  BY <1>1 DEF Sigcont
<1>3. entry' = [t \in Ttys |-> IF entry[t].exists THEN [entry[t] EXCEPT !.suspended = FALSE]
                               ELSE entry[t]]
  BY <1>1 DEF Sigcont
<1> QED
  BY <1>2, <1>3, BackInv DEF Sigcont

LEMMA HaltInv ==
  ASSUME TtyInv, Halt \/ Unhalt
  PROVE  TtyInv'
<1>1. SameList
  BY EntryFacts DEF Halt, Unhalt, SameList, Runs
<1>2. run' \in {"running", "halted"} /\ (run' = "running" => sigcont')
  BY DEF Halt, Unhalt
<1>3. entry' = entry /\ run # "stopped"
  BY DEF Halt, Unhalt
<1>4. \A t \in Ttys : ~entry'[t].suspended
  BY <1>3 DEF TtyInv
<1> QED
  BY <1>1, <1>2, <1>4, SameListInv

LEMMA ShellInv ==
  ASSUME TtyInv, NEW u \in Ttys, Shell(u)
  PROVE  TtyInv'
<1>1. SameList
  BY EntryFacts DEF Shell, SameList, Attrs
<1>2. run' = run /\ run \in {"stopped", "halted"} /\ entry' = entry
  BY DEF Shell
<1>3. \A t \in Ttys : entry'[t].suspended <=> run' = "stopped" /\ entry[t].exists
  BY <1>2 DEF TtyInv
<1>4. run' = "stopped" => \A t \in Ttys : attr'[t] \in {"own", "shell"}
  BY <1>2, EntryFacts DEF TtyInv, Shell
<1> QED
  BY <1>1, <1>2, <1>3, <1>4, SameListInv

----------------------------------------------------------------------------
(* The setup.                                                              *)

LEMMA SetupDoneInv ==
  ASSUME TtyInv, Setup, setup = 4
  PROVE  TtyInv'
<1>1. /\ run' = "running" /\ run = "setup"
      /\ UNCHANGED <<split, on, attr, entry, after, before, raw, open, setup, sigcont>>
  BY DEF Setup
<1>2. SameList
  BY <1>1, EntryFacts DEF SameList, Runs
<1>3. \A t \in Ttys : ~entry'[t].suspended
  BY <1>1 DEF TtyInv
<1>4. \A t \in Ttys : entry[t].exists => attr'[t] = entry[t].desired
  BY <1>1 DEF TtyInv, Synced, Now
<1> QED
  BY <1>1, <1>2, <1>3, <1>4, SameListInv

LEMMA SetupSkipInv ==
  ASSUME TtyInv, Setup, setup # 4, on[setup] = Nil
  PROVE  TtyInv'
<1>1. /\ run' = "setup" /\ run = "setup" /\ setup' = setup + 1
      /\ UNCHANGED <<split, on, attr, entry, after, before, raw, open, sigcont>>
  BY DEF Setup
<1>2. setup \in {1, 2, 3} /\ setup' \in {2, 3, 4}
  BY <1>1 DEF TtyInv
<1>3. Now' = Now
  BY <1>1 DEF Now
<1>4. Usable(Now)' /\ ListSound(Now)'
  BY <1>1, <1>3 DEF TtyInv, Usable, ListSound, Linked, Looped, Distinct, Mixed
<1>5. Shares(Now)' /\ Synced(Now)'
  BY <1>1, <1>3 DEF TtyInv, Shares, Share, Desired, Synced
<1>6. SetUpTo(setup)'
  <2>1. SetUpTo(setup)
    BY <1>1 DEF TtyInv
  <2>2. CASE setup = 1
    BY <1>1, <2>1, <2>2, TtyAssumption DEF SetUpTo, Channels
  <2>3. CASE setup = 2
    BY <1>1, <2>1, <2>3, TtyAssumption DEF SetUpTo, Channels
  <2>4. CASE setup = 3
    BY <1>1, <2>1, <2>4, TtyAssumption DEF SetUpTo, Channels
  <2> QED
    BY <1>2, <2>2, <2>3, <2>4
<1> QED
  BY <1>1, <1>2, <1>3, <1>4, <1>5, <1>6 DEF TtyInv, TableSound

(* The search does not end only if the first two channels share a terminal *)
(* and the third is on another one.                                        *)
LEMMA EndlessWhen ==
  ASSUME TtyInv, run = "setup", setup # 4, on[setup] # Nil, ~Found(on[setup]), Endless
  PROVE  setup = 3 /\ on[1] # Nil /\ on[1] = on[2] /\ on[3] \notin {on[1], Nil}
<1>1. SetUpTo(setup) /\ setup \in {1, 2, 3} /\ on \in [{1, 2, 3} -> Ttys \cup {Nil}]
  BY DEF TtyInv, Channels
<1>2. CASE setup = 1
  BY <1>1, <1>2 DEF SetUpTo, Endless, Follow
<1>3. CASE setup = 2
  BY <1>1, <1>3 DEF SetUpTo, Endless, Follow
<1>4. CASE setup = 3
  <2>1. CASE on[2] = Nil
    BY <1>1, <1>4, <2>1 DEF SetUpTo, Endless, Follow
  <2>2. CASE on[2] # Nil /\ on[1] # on[2]
    BY <1>1, <1>4, <2>2 DEF SetUpTo, Endless, Follow
  <2>3. CASE on[2] # Nil /\ on[1] = on[2]
    BY <1>1, <1>4, <2>3 DEF SetUpTo, Found, Met
  <2> QED
    BY <2>1, <2>2, <2>3
<1> QED
  BY <1>1, <1>2, <1>3, <1>4

LEMMA SetupHangsInv ==
  ASSUME TtyInv, Setup, setup # 4, on[setup] # Nil, ~Found(on[setup]), Endless
  PROVE  TtyInv'
<1>1. /\ run' = "hung" /\ run = "setup" /\ setup' = setup + 1
      /\ UNCHANGED <<split, on, attr, entry, after, before, raw, open, sigcont>>
  BY DEF Setup, ttysave_make_raw
<1>2. setup = 3 /\ on[1] # Nil /\ on[1] = on[2] /\ on[3] \notin {on[1], Nil}
  BY <1>1, EndlessWhen
<1>3. Now' \in States
  BY <1>1 DEF TtyInv, Now, States, Runs
<1>4. Usable(Now)' /\ ListSound(Now)'
  BY <1>1 DEF TtyInv, Now, Usable, ListSound, Linked, Looped, Distinct, Mixed
<1>5. Shares(Now)'
  BY <1>1 DEF TtyInv, Now, Shares, Share, Desired
<1>6. TableSound'
  BY <1>1, <1>2 DEF TableSound
<1>7. \A t \in Ttys : entry'[t].suspended <=> run' = "stopped" /\ entry'[t].exists
  BY <1>1 DEF TtyInv
<1> QED
  BY <1>1, <1>2, <1>3, <1>4, <1>5, <1>6, <1>7 DEF TtyInv

(* e with one channel more, as ttysave_make_raw leaves it.                 *)
More(c) == Counted([entry[on[c]] EXCEPT !.exists = TRUE], c, 1)

LEMMA MoreFields ==
  ASSUME entry \in [Ttys -> Entries], NEW c \in Channels, on[c] \in Ttys
  PROVE  /\ More(c).refs = entry[on[c]].refs + 1
         /\ More(c).in = IF c = 1 THEN entry[on[c]].in + 1 ELSE entry[on[c]].in
         /\ More(c).out = IF c = 1 THEN entry[on[c]].out ELSE entry[on[c]].out + 1
         /\ More(c).exists = TRUE
         /\ More(c).desired = entry[on[c]].desired
         /\ More(c).suspended = entry[on[c]].suspended
         /\ More(c) \in Entries
<1>1. entry[on[c]] \in Entries
  OBVIOUS
<1> DEFINE e == [entry[on[c]] EXCEPT !.exists = TRUE]
<1>2. e \in Entries
  BY <1>1 DEF Entries
<1>3. /\ e.refs = entry[on[c]].refs /\ e.in = entry[on[c]].in /\ e.out = entry[on[c]].out
      /\ e.exists = TRUE /\ e.desired = entry[on[c]].desired
      /\ e.suspended = entry[on[c]].suspended
  BY <1>1 DEF Entries
<1> HIDE DEF e
<1>4. /\ Counted(e, c, 1).refs = e.refs + 1
      /\ Counted(e, c, 1).in = IF c = 1 THEN e.in + 1 ELSE e.in
      /\ Counted(e, c, 1).out = IF c = 1 THEN e.out ELSE e.out + 1
      /\ Counted(e, c, 1).exists = e.exists
      /\ Counted(e, c, 1).desired = e.desired
      /\ Counted(e, c, 1).suspended = e.suspended
  BY <1>2 DEF Counted, Entries
<1>5. Counted(e, c, 1) \in Entries
  <2> DEFINE i == IF c = 1 THEN e.in + 1 ELSE e.in
             o == IF c = 1 THEN e.out ELSE e.out + 1
  <2>1. e.refs + 1 \in Nat /\ i \in Nat /\ o \in Nat
    BY <1>2 DEF Entries
  <2>2. Counted(e, c, 1) = [e EXCEPT !.refs = e.refs + 1, !.in = i, !.out = o]
    BY <1>2 DEF Counted, Entries
  <2> HIDE DEF i, o
  <2> QED
    BY <1>2, <2>1, <2>2 DEF Entries
<1> QED
  BY <1>3, <1>4, <1>5 DEF More, e

LEMMA SetupRawInv ==
  ASSUME TtyInv, Setup, setup # 4, on[setup] # Nil, ~(~Found(on[setup]) /\ Endless)
  PROVE  TtyInv'
<1> DEFINE c == setup
           t == on[c]
           M == More(c)
           E == [M EXCEPT !.desired = Desired(M)]
           first == after[TtyHead]
<1>1. /\ run' = "setup" /\ run = "setup" /\ setup' = setup + 1
      /\ UNCHANGED <<split, on, open, sigcont>>
      /\ entry' = [entry EXCEPT ![t] = E]
      /\ attr' = Updated(attr, t, M)
      /\ raw' = [raw EXCEPT ![c] = TRUE]
      /\ after' = [after EXCEPT ![t] = first, ![TtyHead] = t]
      /\ before' = [u \in Ttys |-> IF u = t THEN TtyHead ELSE IF u = first THEN t ELSE before[u]]
  BY DEF Setup, ttysave_make_raw, More
<1>2. /\ c \in {1, 2, 3} /\ c \in Channels /\ setup' \in {2, 3, 4} /\ Channels = {1, 2, 3}
      /\ split \in BOOLEAN /\ sigcont \in BOOLEAN /\ on \in [Channels -> Ttys \cup {Nil}]
      /\ t \in Ttys
  BY <1>1 DEF TtyInv, Channels
<1>3. /\ attr \in [Ttys -> Attrs] /\ entry \in [Ttys -> Entries]
      /\ after \in [Ttys \cup {TtyHead} -> Ttys \cup {Nil}]
      /\ before \in [Ttys -> Ttys \cup {TtyHead, Nil}]
      /\ raw \in [Channels -> BOOLEAN] /\ open \in [Channels -> BOOLEAN]
  BY DEF TtyInv, Now, States
<1>4. /\ M.refs = entry[t].refs + 1
      /\ M.in = IF c = 1 THEN entry[t].in + 1 ELSE entry[t].in
      /\ M.out = IF c = 1 THEN entry[t].out ELSE entry[t].out + 1
      /\ M.exists = TRUE /\ M.desired = entry[t].desired
      /\ M.suspended = entry[t].suspended
      /\ M \in Entries
  BY <1>2, <1>3, MoreFields
<1>5. SetUpTo(c)
  BY <1>1 DEF TtyInv
<1>6. ~raw[c] /\ open[c] /\ \A d \in Channels : raw[d] <=> d < c /\ on[d] # Nil
  BY <1>2, <1>5 DEF SetUpTo
<1> HIDE DEF M
<1>7. Desired(M) \in Attrs
  BY <1>2, <1>4, DesiredType
<1>8. /\ E \in Entries /\ E.refs = M.refs /\ E.in = M.in /\ E.out = M.out /\ E.exists = TRUE
      /\ E.desired = Desired(M) /\ E.suspended = M.suspended
  BY <1>4, <1>7 DEF Entries
<1>9. Desired(E) = Desired(M)
  BY <1>2, <1>4, <1>8, DesiredFields
<1> HIDE DEF E
<1>10. /\ entry'[t] = E /\ \A u \in Ttys \ {t} : entry'[u] = entry[u]
       /\ \A u \in Ttys \ {t} : attr'[u] = attr[u]
       /\ attr'[t] = IF Desired(M) = M.desired THEN attr[t] ELSE Desired(M)
  BY <1>1, <1>2, <1>3 DEF Updated
<1>11. Now' \in States
  <2>1. attr' \in [Ttys -> Attrs]
    BY <1>1, <1>2, <1>3, <1>7 DEF Updated
  <2>2. entry' \in [Ttys -> Entries]
    BY <1>1, <1>3, <1>8
  <2>3. /\ after' \in [Ttys \cup {TtyHead} -> Ttys \cup {Nil}]
        /\ before' \in [Ttys -> Ttys \cup {TtyHead, Nil}]
    BY <1>1, <1>2, <1>3
  <2>4. raw' \in [Channels -> BOOLEAN] /\ open' \in [Channels -> BOOLEAN] /\ run' \in Runs
    BY <1>1, <1>3 DEF Runs
  <2> QED
    BY <2>1, <2>2, <2>3, <2>4 DEF Now, States
<1>12. Usable(Now)'
  BY <1>1, <1>2, <1>3, <1>6 DEF TtyInv, Usable, Now
<1>13. Shares(Now)'
  <2> SUFFICES ASSUME NEW u \in Ttys
               PROVE  /\ entry'[u].in = Share(Now, 1, u)'
                      /\ entry'[u].out = Share(Now, 2, u)' + Share(Now, 3, u)'
                      /\ entry'[u].refs = entry'[u].in + entry'[u].out
                      /\ entry'[u].exists <=> entry'[u].refs > 0
                      /\ entry'[u].desired = Desired(entry[u])'
                      /\ entry'[u].refs = 0 => attr'[u] \in {"own", "shell"}
    BY DEF Shares, Now
  <2>1. /\ entry[u].in = Share(Now, 1, u) /\ entry[u].out = Share(Now, 2, u) + Share(Now, 3, u)
        /\ entry[u].refs = entry[u].in + entry[u].out
        /\ entry[u].exists <=> entry[u].refs > 0
        /\ entry[u].desired = Desired(entry[u])
        /\ entry[u].refs = 0 => attr[u] \in {"own", "shell"}
    BY DEF TtyInv, Shares, Now
  <2>2. \A d \in Channels : Share(Now, d, u)' = IF d = c /\ u = t THEN 1 ELSE Share(Now, d, u)
    BY <1>1, <1>2, <1>3 DEF Share, Now
  <2>3. Desired(entry[u])' = Desired(entry'[u])
    BY <1>1 DEF Desired
  <2>4. CASE u # t
    <3>1. entry'[u] = entry[u] /\ attr'[u] = attr[u]
      BY <1>10, <2>4
    <3>2. \A d \in {1, 2, 3} : Share(Now, d, u)' = Share(Now, d, u)
      BY <1>2, <2>2, <2>4
    <3> QED
      BY <2>1, <2>3, <3>1, <3>2
  <2>5. CASE u = t
    <3>1. /\ Share(Now, 1, u)' = (IF c = 1 THEN 1 ELSE Share(Now, 1, u))
          /\ Share(Now, 2, u)' = (IF c = 2 THEN 1 ELSE Share(Now, 2, u))
          /\ Share(Now, 3, u)' = (IF c = 3 THEN 1 ELSE Share(Now, 3, u))
      BY <1>2, <2>2, <2>5
    <3>2. Share(Now, c, u) = 0 /\ \A d \in {1, 2, 3} : Share(Now, d, u) \in {0, 1}
      BY <1>6 DEF Share, Now
    <3>3. /\ Share(Now, 1, u) \in {0, 1} /\ Share(Now, 2, u) \in {0, 1}
          /\ Share(Now, 3, u) \in {0, 1}
      BY <3>2
    <3>4. /\ entry'[u].refs = entry[u].refs + 1
          /\ entry'[u].in = (IF c = 1 THEN entry[u].in + 1 ELSE entry[u].in)
          /\ entry'[u].out = (IF c = 1 THEN entry[u].out ELSE entry[u].out + 1)
          /\ entry'[u].exists
          /\ entry'[u].desired = Desired(E) /\ entry'[u] = E
      BY <1>4, <1>8, <1>9, <1>10, <2>5
    <3> HIDE DEF c, t
    <3>5. /\ entry'[u].in = Share(Now, 1, u)'
          /\ entry'[u].out = Share(Now, 2, u)' + Share(Now, 3, u)'
          /\ entry'[u].refs = entry'[u].in + entry'[u].out
          /\ entry'[u].refs > 0
      <4>1. CASE c = 1
        BY <2>1, <3>1, <3>2, <3>3, <3>4, <4>1
      <4>2. CASE c = 2
        BY <2>1, <3>1, <3>2, <3>3, <3>4, <4>2
      <4>3. CASE c = 3
        BY <2>1, <3>1, <3>2, <3>3, <3>4, <4>3
      <4> QED
        BY <1>2, <4>1, <4>2, <4>3
    <3>6. entry'[u].refs # 0
      BY <3>5, <3>3, <2>1, <3>4
    <3> QED
      BY <2>3, <3>4, <3>5, <3>6
  <2> QED
    BY <2>4, <2>5
<1>14. \A u \in Ttys : attr'[u] = entry'[u].desired
  <2>1. \A u \in Ttys : attr[u] = entry[u].desired
    BY <1>5 DEF SetUpTo
  <2>2. attr'[t] = entry'[t].desired
    BY <1>2, <1>4, <1>8, <1>10, <2>1
  <2> QED
    BY <1>10, <2>1, <2>2
<1>15. ListSound(Now)'
  <2>1. CASE Mixed
    BY <1>1, <2>1 DEF ListSound, Mixed
  <2>2. CASE ~Mixed /\ Distinct
    <3>1. Linked(Now)
      BY <2>2 DEF TtyInv, ListSound
    <3>2. ~entry[t].exists
      <4>1. \A d \in {1, 2, 3} : ~(raw[d] /\ on[d] = t)
        BY <1>2, <1>6, <2>2 DEF Distinct
      <4>2. \A d \in {1, 2, 3} : Share(Now, d, t) = 0
        BY <4>1 DEF Share, Now
      <4>3. /\ entry[t].refs = Share(Now, 1, t) + (Share(Now, 2, t) + Share(Now, 3, t))
            /\ entry[t].exists <=> entry[t].refs > 0
        BY <1>2 DEF TtyInv, Shares, Now
      <4> QED
        BY <4>2, <4>3
    <3>3. /\ first # Nil => first \in Ttys \ {t} /\ entry[first].exists /\ before[first] = TtyHead
          /\ \A u \in Ttys : entry[u].exists =>
               /\ u # t
               /\ after[u] # Nil => after[u] \in Ttys \ {t} /\ entry[after[u]].exists /\ before[after[u]] = u
               /\ before[u] # TtyHead => before[u] \in Ttys \ {t} /\ entry[before[u]].exists
               /\ after[before[u]] = u
      BY <1>2, <1>3, <3>1, <3>2, TtyAssumption DEF Linked, Now
    <3>4. /\ after'[TtyHead] = t /\ after'[t] = first
          /\ \A u \in Ttys \ {t} : after'[u] = after[u]
          /\ before'[t] = TtyHead
          /\ \A u \in Ttys \ {t} : before'[u] = IF u = first THEN t ELSE before[u]
      BY <1>1, <1>2, <1>3, TtyAssumption
    <3>5. entry'[t].exists /\ \A u \in Ttys \ {t} : entry'[u].exists <=> entry[u].exists
      BY <1>8, <1>10
    <3>6. /\ after'[t] # Nil => entry'[after'[t]].exists /\ before'[after'[t]] = t
          /\ after'[before'[t]] = t
      BY <3>3, <3>4, <3>5
    <3>7. ASSUME NEW u \in Ttys \ {t}, entry'[u].exists
          PROVE  /\ after'[u] # Nil => entry'[after'[u]].exists /\ before'[after'[u]] = u
                 /\ before'[u] # TtyHead => before'[u] \in Ttys /\ entry'[before'[u]].exists
                 /\ after'[before'[u]] = u
      <4>1. entry[u].exists
        BY <3>5, <3>7
      <4>2. after'[u] # Nil => entry'[after'[u]].exists /\ before'[after'[u]] = u
        <5>1. after'[u] = after[u]
          BY <3>4
        <5>2. ASSUME after[u] # Nil PROVE after[u] # first
          BY <3>3, <4>1, <5>2, TtyAssumption
        <5> QED
          BY <3>3, <3>4, <3>5, <4>1, <5>1, <5>2
      <4>3. CASE u = first
        BY <1>2, <3>4, <3>5, <4>2, <4>3
      <4>4. CASE u # first
        <5>1. before'[u] = before[u] /\ before[u] # TtyHead
          BY <3>3, <3>4, <4>1, <4>4
        <5> QED
          BY <3>3, <3>4, <3>5, <4>1, <4>2, <5>1
      <4> QED
        BY <4>3, <4>4
    <3>8. Linked(Now)'
      BY <1>2, <3>4, <3>5, <3>6, <3>7 DEF Linked, Now
    <3> QED
      BY <3>8, <2>2, <1>1 DEF ListSound, Distinct
  <2>3. CASE ~Mixed /\ ~Distinct
    <3>1. Looped(Now)
      BY <2>3 DEF TtyInv, ListSound
    <3>2. /\ first \in {Nil, t}
          /\ \A d \in {1, 2, 3} : d < c /\ on[d] # Nil => on[d] = t
      <4>1. CASE c = 1
        BY <4>1, <1>5 DEF SetUpTo
      <4>2. CASE c = 2
        <5>1. on[1] \in {Nil, on[2]}
          BY <1>2, <4>2, <2>3 DEF Mixed, Distinct
        <5> QED
          BY <1>5, <4>2, <5>1 DEF SetUpTo
      <4>3. CASE c = 3
        <5>1. on[1] \in {Nil, t} /\ on[2] \in {Nil, t}
          <6>1. CASE on[1] = on[2] /\ on[1] # Nil
            <7>1. after[TtyHead] = on[2] /\ after[on[2]] = on[2]
              BY <1>5, <4>3, <6>1 DEF SetUpTo
            <7>2. Endless
              BY <6>1, <7>1 DEF Endless, Follow
            <7>3. Met = {on[2]}
              BY <6>1, <7>1 DEF Met, Follow
            <7> QED
              BY <4>3, <6>1, <7>2, <7>3 DEF Found
          <6>2. CASE on[1] # on[2] \/ on[1] = Nil
            BY <1>2, <2>3, <4>3, <6>2 DEF Mixed, Distinct
          <6> QED
            BY <6>1, <6>2
        <5> QED
          BY <1>5, <4>3, <5>1 DEF SetUpTo
      <4> QED
        BY <1>2, <4>1, <4>2, <4>3
    <3>3. \A u \in Ttys \ {t} : ~entry[u].exists
      <4> SUFFICES ASSUME NEW u \in Ttys \ {t} PROVE ~entry[u].exists
        OBVIOUS
      <4>1. \A d \in {1, 2, 3} : ~(raw[d] /\ on[d] = u)
        BY <1>2, <1>6, <3>2
      <4>2. \A d \in {1, 2, 3} : Share(Now, d, u) = 0
        BY <4>1 DEF Share, Now
      <4>3. /\ entry[u].refs = Share(Now, 1, u) + (Share(Now, 2, u) + Share(Now, 3, u))
            /\ entry[u].exists <=> entry[u].refs > 0
        BY <1>2 DEF TtyInv, Shares, Now
      <4> QED
        BY <4>2, <4>3
    <3>4. \A u \in Ttys : entry'[u].exists => u = t
      BY <1>10, <3>3
    <3>5. before'[t] = TtyHead /\ after'[t] \in {Nil, t}
      BY <1>1, <1>2, <1>3, <3>2, TtyAssumption
    <3>6. Looped(Now)'
      BY <3>4, <3>5 DEF Looped, Now
    <3> QED
      BY <3>6, <2>3, <1>1 DEF ListSound, Distinct
  <2> QED
    BY <2>1, <2>2, <2>3
<1>16. SetUpTo(setup)'
  <2>1. \A d \in Channels : raw'[d] <=> d < c + 1 /\ on[d] # Nil
    BY <1>1, <1>2, <1>3, <1>6
  <2>2. \A d \in Channels : open'[d]
    BY <1>1, <1>5 DEF SetUpTo
  <2>3. /\ after'[TtyHead] = t /\ after'[t] = first
        /\ \A u \in Ttys \ {t} : after'[u] = after[u]
    BY <1>1, <1>2, <1>3, TtyAssumption
  <2>4. on[1] \in Ttys \cup {Nil} /\ on[2] \in Ttys \cup {Nil}
    BY <1>2
  <2>5. CASE c = 1
    BY <1>1, <1>5, <1>14, <2>1, <2>2, <2>3, <2>5 DEF SetUpTo
  <2>6. CASE c = 2
    <3>1. first = on[1] /\ (on[1] \in Ttys \ {t} => after[on[1]] = Nil)
      BY <1>5, <2>4, <2>6, TtyAssumption DEF SetUpTo
    <3>2. on[1] \notin {Nil, t} => after'[on[1]] = Nil
      BY <2>3, <2>4, <3>1
    <3> QED
      BY <1>1, <1>14, <2>1, <2>2, <2>3, <2>6, <3>1, <3>2 DEF SetUpTo
  <2>7. CASE c = 3
    BY <1>1, <1>14, <2>1, <2>2, <2>7 DEF SetUpTo
  <2> QED
    BY <1>2, <2>5, <2>6, <2>7
<1>17. Synced(Now)'
  BY <1>14 DEF Synced, Now
<1>18. \A u \in Ttys : ~entry'[u].suspended
  <2>1. \A u \in Ttys : ~entry[u].suspended
    BY <1>1 DEF TtyInv
  <2> QED
    BY <1>2, <1>4, <1>8, <1>10, <2>1
<1> QED
  BY <1>1, <1>2, <1>11, <1>12, <1>13, <1>15, <1>16, <1>17, <1>18 DEF TtyInv, TableSound

----------------------------------------------------------------------------
(* The theorem.                                                            *)

LEMMA TtyInitInv == TtyInit => TtyInv
<1> SUFFICES ASSUME TtyInit PROVE TtyInv
  OBVIOUS
<1>1. NoEntry \in Entries
  BY DEF NoEntry, Entries, Attrs
<1>2. \A t \in Ttys : entry[t] = NoEntry
  BY DEF TtyInit
<1>3. Now \in States
  <2>1. attr \in [Ttys -> Attrs] /\ entry \in [Ttys -> Entries] /\ run \in Runs
    BY <1>1 DEF TtyInit, Attrs, Runs
  <2>2. /\ after \in [Ttys \cup {TtyHead} -> Ttys \cup {Nil}]
        /\ before \in [Ttys -> Ttys \cup {TtyHead, Nil}]
        /\ raw \in [Channels -> BOOLEAN] /\ open \in [Channels -> BOOLEAN]
    BY DEF TtyInit
  <2> QED
    BY <2>1, <2>2 DEF Now, States
<1>4. split \in BOOLEAN
  BY TtyAssumption DEF TtyInit
<1>5. \A c \in {1, 2, 3} : ~raw[c] /\ open[c]
  BY DEF TtyInit, Channels
<1>6. Shares(Now)
  <2>1. Desired(NoEntry) = "own"
    BY <1>4 DEF Desired, NoEntry
  <2>2. \A t \in Ttys : \A c \in {1, 2, 3} : Share(Now, c, t) = 0
    BY <1>5 DEF Share, Now
  <2>3. \A t \in Ttys : attr[t] = "own"
    BY DEF TtyInit
  <2>4. /\ NoEntry.in = 0 /\ NoEntry.out = 0 /\ NoEntry.refs = 0 /\ NoEntry.exists = FALSE
        /\ NoEntry.desired = "own"
    BY DEF NoEntry
  <2>5. Now.entry = entry /\ Now.attr = attr
    BY DEF Now
  <2> SUFFICES ASSUME NEW t \in Ttys
               PROVE  /\ entry[t].in = Share(Now, 1, t)
                      /\ entry[t].out = Share(Now, 2, t) + Share(Now, 3, t)
                      /\ entry[t].refs = entry[t].in + entry[t].out
                      /\ entry[t].exists <=> entry[t].refs > 0
                      /\ entry[t].desired = Desired(entry[t])
                      /\ entry[t].refs = 0 => attr[t] \in {"own", "shell"}
    BY <2>5 DEF Shares
  <2>6. Share(Now, 1, t) = 0 /\ Share(Now, 2, t) = 0 /\ Share(Now, 3, t) = 0
    BY <2>2
  <2>7. entry[t] = NoEntry /\ attr[t] = "own"
    BY <1>2, <2>3
  <2> QED
    BY <2>1, <2>4, <2>6, <2>7
<1>7. Usable(Now) /\ Synced(Now)
  BY <1>2, <1>5 DEF Usable, Synced, Now, Channels, NoEntry
<1>8. ListSound(Now)
  BY <1>2 DEF ListSound, Linked, Looped, Now, NoEntry, TtyInit
<1>9. SetUpTo(1)
  BY <1>2 DEF SetUpTo, TtyInit, Channels, NoEntry
<1>10. \A t \in Ttys : entry[t].suspended <=> run = "stopped" /\ entry[t].exists
  <2>1. NoEntry.suspended = FALSE /\ NoEntry.exists = FALSE
    BY DEF NoEntry
  <2> QED
    BY <1>2, <2>1
<1>11. run = "setup" /\ setup = 1 /\ sigcont = FALSE /\ on \in [Channels -> Ttys \cup {Nil}]
  BY DEF TtyInit
<1>12. TableSound
  BY <1>11 DEF TableSound
<1>13. setup \in 1..4 /\ sigcont \in BOOLEAN
  <2>1. setup \in 1..4
    BY DEF TtyInit
  <2>2. sigcont \in BOOLEAN
    BY DEF TtyInit
  <2> QED
    BY <2>1, <2>2
<1>14. SetUpTo(setup)
  BY <1>9, <1>11, Zenon
<1> QED
  BY <1>3, <1>4, <1>6, <1>7, <1>8, <1>10, <1>11, <1>12, <1>13, <1>14 DEF TtyInv

LEMMA TtyStepInv == TtyInv /\ [TtyNext]_ttyvars => TtyInv'
<1> SUFFICES ASSUME TtyInv, [TtyNext]_ttyvars PROVE TtyInv'
  OBVIOUS
<1>1. CASE Setup
  BY <1>1, SetupDoneInv, SetupSkipInv, SetupHangsInv, SetupRawInv
<1>2. CASE ResetFails
  BY <1>2, ResetFailsInv
<1>3. CASE Exit
  BY <1>3, ExitInv
<1>4. CASE Suspend
  BY <1>4, SuspendInv
<1>5. CASE Resume
  BY <1>5, ResumeInv
<1>6. CASE Halt \/ Unhalt
  BY <1>6, HaltInv
<1>7. CASE Sigcont
  BY <1>7, SigcontInv
<1>8. CASE \E c \in Channels : channel_close(c)
  BY <1>8, CloseInv
<1>9. CASE \E t \in Ttys : Shell(t)
  BY <1>9, ShellInv
<1>10. CASE UNCHANGED ttyvars
  <2>1. /\ split' = split /\ on' = on /\ attr' = attr /\ entry' = entry /\ after' = after
        /\ before' = before /\ raw' = raw /\ open' = open /\ run' = run /\ setup' = setup
        /\ sigcont' = sigcont
    BY <1>10 DEF ttyvars
  <2>2. Now' = Now
    BY <2>1 DEF Now
  <2>3. Usable(Now)' /\ ListSound(Now)' /\ Shares(Now)' /\ (Synced(Now) => Synced(Now)')
    BY <2>1, <2>2 DEF TtyInv, Usable, ListSound, Linked, Looped, Distinct, Mixed, Shares, Share,
                      Desired, Synced
  <2>4. (run = "setup" => SetUpTo(setup)') /\ TableSound'
    BY <2>1 DEF TtyInv, SetUpTo, TableSound
  <2> QED
    BY <2>1, <2>2, <2>3, <2>4 DEF TtyInv
<1> QED
  BY <1>1, <1>2, <1>3, <1>4, <1>5, <1>6, <1>7, <1>8, <1>9, <1>10 DEF TtyNext

(* What the entry counts is what the open channels want.                   *)
LEMMA InvWanted ==
  ASSUME TtyInv, NEW t \in Ttys, Users(t) # {}
  PROVE  entry[t].exists /\ entry[t].desired = Wanted(t)
<1>1. Users(t) = {c \in {1, 2, 3} : raw[c] /\ on[c] = t}
  BY ReachedExists DEF Channels
<1>2. /\ entry[t].in = Share(Now, 1, t) /\ entry[t].out = Share(Now, 2, t) + Share(Now, 3, t)
      /\ entry[t].refs = entry[t].in + entry[t].out
      /\ entry[t].exists <=> entry[t].refs > 0
      /\ entry[t].desired = Desired(entry[t])
      /\ split \in BOOLEAN
  BY DEF TtyInv, Shares, Now
<1>3. /\ Share(Now, 1, t) = IF 1 \in Users(t) THEN 1 ELSE 0
      /\ Share(Now, 2, t) = IF 2 \in Users(t) THEN 1 ELSE 0
      /\ Share(Now, 3, t) = IF 3 \in Users(t) THEN 1 ELSE 0
  BY <1>1 DEF Share, Now
<1>4. \/ 1 \in Users(t)
      \/ 2 \in Users(t)
      \/ 3 \in Users(t)
  BY <1>1
<1>5. Users(t) # {1} <=> 1 \notin Users(t) \/ 2 \in Users(t) \/ 3 \in Users(t)
  BY <1>1
<1>6. entry[t].refs > 0
  BY <1>2, <1>3, <1>4
<1>7. CASE 1 \in Users(t) /\ Users(t) # {1}
  <2>1. entry[t].in > 0 /\ entry[t].out > 0
    BY <1>2, <1>3, <1>5, <1>7
  <2> QED
    BY <1>2, <1>6, <1>7, <2>1 DEF Desired, Wanted
<1>8. CASE Users(t) = {1}
  <2>1. entry[t].in > 0 /\ entry[t].out = 0
    BY <1>2, <1>3, <1>5, <1>8
  <2> QED
    BY <1>2, <1>6, <1>8, <2>1 DEF Desired, Wanted
<1>9. CASE 1 \notin Users(t)
  <2>1. entry[t].in = 0 /\ entry[t].out > 0
    BY <1>2, <1>3, <1>4, <1>9
  <2> QED
    BY <1>2, <1>6, <1>9, <2>1 DEF Desired, Wanted
<1> QED
  BY <1>7, <1>8, <1>9

LEMMA InvKept == TtyInv => TerminalsKept
<1> SUFFICES ASSUME TtyInv PROVE TerminalsKept
  OBVIOUS
<1>1. ASSUME NEW t \in Ttys, run = "running", ~sigcont, Users(t) # {}
      PROVE  attr[t] = Wanted(t)
  BY <1>1, InvWanted DEF TtyInv, Synced, Now
<1>2. ASSUME NEW t \in Ttys, run = "stopped"
      PROVE  attr[t] \in {"own", "shell"}
  BY <1>2 DEF TtyInv
<1>3. ASSUME NEW t \in Ttys, run = "exited"
      PROVE  attr[t] \in {"own", "shell"}
  <2>1. \A c \in {1, 2, 3} : ~raw[c]
    BY <1>3 DEF TtyInv, Channels
  <2>2. \A c \in {1, 2, 3} : Share(Now, c, t) = 0
    BY <2>1 DEF Share, Now
  <2>3. entry[t].refs = Share(Now, 1, t) + (Share(Now, 2, t) + Share(Now, 3, t))
    BY DEF TtyInv, Shares, Now
  <2>4. entry[t].refs = 0
    BY <2>2, <2>3
  <2> QED
    BY <2>4, EntryFacts
<1>4. AsWanted
  BY <1>1, <1>2, <1>3 DEF AsWanted
<1> QED
  BY <1>4 DEF TerminalsKept, TtyInv

(* For every number of terminals and every arrangement of the channels on  *)
(* them: ttysave_make_raw, ttysave_restore and the job control callbacks   *)
(* keep each terminal as its channels want it, and only channels on        *)
(* exactly two terminals can damage tty_head.                              *)
THEOREM TtyKept == TtySpec => []TerminalsKept
<1>1. TtyInit => TtyInv
  BY TtyInitInv
<1>2. TtyInv /\ [TtyNext]_ttyvars => TtyInv'
  BY TtyStepInv
<1>3. TtyInv => TerminalsKept
  BY InvKept
<1> QED
  BY <1>1, <1>2, <1>3, PTL DEF TtySpec

----------------------------------------------------------------------------
(* Children.                                                               *)

(* No stranger is sent a signal.                                           *)

KidRecord ==
  [pid : Pids \cup {0}, state : {"none", "runs", "zombie", "gone"}, dead : BOOLEAN,
   signalled : BOOLEAN, wrote : Nat]

(* child_wait works on a child.                                            *)
Waiting == where \in {"wait", "reaped", "suspend"}

ChildTypeOK ==
  /\ kid \in [Kids -> KidRecord]
  /\ todo \in Seq(Kids)
  /\ where \in {"main", "wait", "reaped", "suspend", "cleanup", "ended"}
  /\ back \in {"main", "cleanup"}
  /\ Waiting => target \in Kids

(* A child that was waited for is marked dead before any signal is let in  *)
(* and before the program goes on.                                         *)
MarkedInTime ==
  \A k \in Kids : kid[k].state = "gone" /\ ~kid[k].dead => where = "reaped" /\ target = k

SafeInv == ChildTypeOK /\ MarkedInTime /\ NoStranger

(* Outside of reaping, kill(2) goes to nobody but children.                *)
LEMMA KillIsSafe ==
  ASSUME SafeInv, where # "reaped", NEW ks \in SUBSET Kids, Kill(ks)
  PROVE  /\ kid' \in [Kids -> KidRecord] /\ NoStranger'
         /\ \A k \in Kids : /\ kid'[k].state = kid[k].state /\ kid'[k].dead = kid[k].dead
                            /\ kid'[k].wrote = kid[k].wrote
BY DEF SafeInv, ChildTypeOK, MarkedInTime, NoStranger, Kill, KidRecord

(* The cleanups are those of children.                                     *)
LEMMA TodoFacts ==
  ASSUME ChildTypeOK
  PROVE  /\ ToSet(todo) \in SUBSET Kids
         /\ todo # <<>> => Head(todo) \in Kids /\ Tail(todo) \in Seq(Kids)
BY HeadTailProperties, ElementOfSeq, LenProperties DEF ChildTypeOK, ToSet

(* No child exists at the start, and no signal was sent.                   *)
LEMMA SafeInit ==
  ASSUME ChildInit
  PROVE  SafeInv
BY DEF ChildInit, SafeInv, ChildTypeOK, MarkedInTime, NoStranger, Waiting, NoKid, KidRecord

(* A child that writes or exits.                                           *)
LEMMA SafeKids ==
  ASSUME SafeInv, NEW k \in Kids, KidStep(k)
  PROVE  SafeInv'
<1>1. CASE Writes(k)
  <2>1. kid' \in [Kids -> KidRecord]
    <3>1. kid[k] \in KidRecord /\ kid[k].wrote + 1 \in Nat
      BY DEF SafeInv, ChildTypeOK, KidRecord
    <3>2. [kid[k] EXCEPT !.wrote = kid[k].wrote + 1] \in KidRecord
      BY <3>1 DEF KidRecord
    <3>3. kid' = [kid EXCEPT ![k] = [kid[k] EXCEPT !.wrote = kid[k].wrote + 1]]
      BY <1>1 DEF Writes
    <3>4. QED
      BY <3>2, <3>3 DEF SafeInv, ChildTypeOK
  <2>2. QED
    BY <1>1, <2>1 DEF Writes, SafeInv, ChildTypeOK, MarkedInTime, NoStranger, Waiting, KidRecord
<1>2. CASE Exits(k)
  <2>1. kid' \in [Kids -> KidRecord]
    BY <1>2 DEF Exits, SafeInv, ChildTypeOK, KidRecord
  <2>2. QED
    BY <1>2, <2>1 DEF Exits, SafeInv, ChildTypeOK, MarkedInTime, NoStranger, Waiting, KidRecord
<1>3. QED
  BY <1>1, <1>2 DEF KidStep

(* The calls of the program.                                               *)
LEMMA SafeCalls ==
  ASSUME SafeInv, NEW k \in Kids, Calls(k)
  PROVE  SafeInv'
<1>1. CASE child_start(k)
  <2>1. todo' \in Seq(Kids)
    BY <1>1, ConcatProperties DEF child_start, SafeInv, ChildTypeOK
  <2>2. PICK p \in Pids :
          kid' = [kid EXCEPT ![k] = [NoKid EXCEPT !.pid = p, !.state = "runs",
                                        !.wrote = IF k \in Recorders THEN 0 ELSE MaxOutput]]
    BY <1>1 DEF child_start
  <2>3. kid' \in [Kids -> KidRecord]
    BY <2>2, ChildAssumption DEF SafeInv, ChildTypeOK, KidRecord, NoKid
  <2>4. QED
    BY <1>1, <2>1, <2>2, <2>3 DEF child_start, SafeInv, ChildTypeOK, MarkedInTime, NoStranger, Waiting, NoKid
<1>2. CASE child_wait(k)
  BY <1>2 DEF child_wait, SafeInv, ChildTypeOK, MarkedInTime, NoStranger, Waiting, Recording
<1>3. CASE child_kill(k)
  <2>1. {k} \in SUBSET Kids /\ where # "reaped" /\ Kill({k})
    BY <1>3 DEF child_kill
  <2>2. QED
    BY <1>3, <2>1, KillIsSafe DEF child_kill, SafeInv, ChildTypeOK, MarkedInTime, Waiting, Recording
<1>4. CASE child_poll_death(k)
  BY <1>4 DEF child_poll_death, SafeInv, ChildTypeOK, MarkedInTime, NoStranger, Waiting, Recording, KidRecord
<1>5. CASE fdrecorder_get_clean(k)
  BY <1>5 DEF fdrecorder_get_clean, SafeInv, ChildTypeOK, MarkedInTime, NoStranger, Waiting
<1>6. QED
  BY <1>1, <1>2, <1>3, <1>4, <1>5 DEF Calls

(* waitpid, and what follows it.                                           *)
LEMMA SafeReturns ==
  ASSUME SafeInv, Returns
  PROVE  SafeInv'
<1>1. CASE Waitpid
  BY <1>1 DEF Waitpid, SafeInv, ChildTypeOK, MarkedInTime, NoStranger, Waiting, Recording, KidRecord
<1>2. CASE MarkDead
  BY <1>2 DEF MarkDead, SafeInv, ChildTypeOK, MarkedInTime, NoStranger, Waiting, Recording, KidRecord
<1>3. CASE child_cleanup
  <2>1. CASE todo = <<>>
    BY <1>3, <2>1 DEF child_cleanup, SafeInv, ChildTypeOK, MarkedInTime, NoStranger, Waiting, Recording
  <2>2. CASE todo # <<>>
    <3>1. Head(todo) \in Kids /\ Tail(todo) \in Seq(Kids)
      BY <2>2, TodoFacts DEF SafeInv
    <3>2. {Head(todo)} \in SUBSET Kids /\ where # "reaped" /\ Kill({Head(todo)})
      BY <1>3, <2>2, <3>1 DEF child_cleanup
    <3>3. QED
      BY <1>3, <2>2, <3>1, <3>2, KillIsSafe
         DEF child_cleanup, SafeInv, ChildTypeOK, MarkedInTime, Waiting, Recording
  <2>3. QED
    BY <2>1, <2>2
<1>4. QED
  BY <1>1, <1>2, <1>3 DEF Returns

(* Signal handlers run in the program and in sigsuspend only.              *)
LEMMA SafeHandlers ==
  ASSUME SafeInv, Handlers
  PROVE  SafeInv'
<1>1. where \in {"main", "suspend"}
  BY DEF Handlers, Sigio, Sigchld, HandleQuit, LetIn, SafeInv, ChildTypeOK
<1>2. CASE Sigio \/ Sigchld
  BY <1>1, <1>2 DEF Sigio, Sigchld, Resumed, SafeInv, ChildTypeOK, MarkedInTime, NoStranger, Waiting, Recording
<1>3. CASE HandleQuit
  <2>1. ToSet(todo) \in SUBSET Kids /\ where # "reaped" /\ Kill(ToSet(todo))
    BY <1>1, <1>3, TodoFacts DEF HandleQuit, SafeInv
  <2>2. todo' \in Seq(Kids)
    BY <1>3, EmptySeq DEF HandleQuit
  <2>3. QED
    BY <1>1, <1>3, <2>1, <2>2, KillIsSafe DEF HandleQuit, SafeInv, ChildTypeOK, MarkedInTime, Waiting, Recording
<1>4. QED
  BY <1>2, <1>3 DEF Handlers

(* Every step of the program, its children, its handlers and other         *)
(* processes preserves the invariant.                                      *)
LEMMA SafeNext ==
  ASSUME SafeInv, [ChildNext]_childvars
  PROVE  SafeInv'
<1>1. CASE \E p \in Pids : Reused(p)
  BY <1>1 DEF Reused, SafeInv, ChildTypeOK, MarkedInTime, NoStranger, Waiting, Recording
<1>2. CASE Quits \/ Ends
  BY <1>2 DEF Quits, Ends, SafeInv, ChildTypeOK, MarkedInTime, NoStranger, Waiting, Recording
<1>3. CASE UNCHANGED childvars
  BY <1>3 DEF childvars, SafeInv, ChildTypeOK, MarkedInTime, NoStranger, Waiting
<1>4. QED
  BY <1>1, <1>2, <1>3, SafeKids, SafeCalls, SafeReturns, SafeHandlers DEF ChildNext

(* Process ids are used again, and still no process but the program's own  *)
(* children is ever sent a signal: not by child_kill, not by child_cleanup *)
(* and not by a quit signal that arrives at the worst moment.              *)
THEOREM OnlyChildrenSignalled == ChildSpec => []NoStranger
<1>1. ChildInit => SafeInv
  BY SafeInit
<1>2. SafeInv /\ [ChildNext]_childvars => SafeInv'
  BY SafeNext
<1>3. SafeInv => NoStranger
  BY DEF SafeInv
<1>4. QED
  BY <1>1, <1>2, <1>3, PTL DEF ChildSpec

----------------------------------------------------------------------------
(* What children write is recorded.                                        *)

(* All of k's output that has left k.                                      *)
Output(k) == taken[k] \o noted[k] \o pipe[k]

(* The first n units of a child's output.                                  *)
Units(n) == [i \in 1..n |-> i]

RecordTypeOK ==
  /\ pipe \in [Kids -> Seq(Nat)] /\ noted \in [Kids -> Seq(Nat)] /\ taken \in [Kids -> Seq(Nat)]
  /\ reader \in [Kids -> BOOLEAN]

(* What the program was given, what the recorder holds and what the pipe   *)
(* holds are together what the child wrote, and as long as a child with a  *)
(* recorder runs the recorder has its end of the pipe.                     *)
KeptWhole ==
  /\ \A k \in Kids : kid[k].state = "none" => kid[k].wrote = 0
  /\ \A k \in Recorders : /\ Output(k) = Units(kid[k].wrote) /\ kid[k].wrote <= MaxOutput
                          /\ kid[k].state = "runs" => reader[k]

RecordInv == SafeInv /\ RecordTypeOK /\ KeptWhole

(* The first n + 1 units are the first n and one more.                     *)
LEMMA UnitsGrow ==
  ASSUME NEW n \in Nat
  PROVE  Units(n) \in Seq(Nat) /\ Len(Units(n)) = n /\ Append(Units(n), n + 1) = Units(n + 1)
<1>1. \A m \in Nat : Units(m) \in Seq(Nat) /\ Len(Units(m)) = m /\ \A i \in 1..m : Units(m)[i] = i
  BY DEF Units
<1>2. Append(Units(n), n + 1) \in Seq(Nat) /\ Len(Append(Units(n), n + 1)) = n + 1
  BY <1>1, AppendProperties
<1>3. \A i \in 1..(n + 1) : Append(Units(n), n + 1)[i] = Units(n + 1)[i]
  BY <1>1, AppendProperties
<1>4. QED
  BY <1>1, <1>2, <1>3, SeqEqual

(* A shorter run of units is a prefix of a longer one.                     *)
LEMMA UnitsPrefix ==
  ASSUME NEW n \in Nat, NEW m \in Nat, n <= m
  PROVE  IsPrefix(Units(n), Units(m))
<1>1. \A j \in Nat : Units(j) \in Seq(Nat) /\ Len(Units(j)) = j /\ \A i \in 1..j : Units(j)[i] = i
  BY DEF Units
<1>2. SubSeq(Units(n), 1, n) = SubSeq(Units(m), 1, n)
  <2>1. /\ SubSeq(Units(n), 1, n) \in Seq(Nat) /\ SubSeq(Units(m), 1, n) \in Seq(Nat)
        /\ Len(SubSeq(Units(n), 1, n)) = n /\ Len(SubSeq(Units(m), 1, n)) = n
        /\ \A i \in 1..n : SubSeq(Units(n), 1, n)[i] = i /\ SubSeq(Units(m), 1, n)[i] = i
    <3>1. ASSUME NEW j \in Nat, n <= j
          PROVE  /\ SubSeq(Units(j), 1, n) \in Seq(Nat) /\ Len(SubSeq(Units(j), 1, n)) = n
                 /\ \A i \in 1..n : SubSeq(Units(j), 1, n)[i] = i
      <4>1. \A i \in 1..n : Units(j)[i] = i
        BY <1>1, <3>1
      <4>2. QED
        BY <3>1, <4>1, SubSeqProperties
    <3>2. QED
      BY <3>1
  <2>2. QED
    BY <2>1, SeqEqual
<1>3. QED
  BY <1>1, <1>2 DEF IsPrefix

(* It makes no difference to the whole where its parts are held: what is   *)
(* read moves from the pipe to the recorder, and then to the caller.       *)
LEMMA MovingKeeps ==
  ASSUME NEW a \in Seq(Nat), NEW b \in Seq(Nat), NEW c \in Seq(Nat)
  PROVE  /\ b \o c \in Seq(Nat) /\ a \o (b \o c) \in Seq(Nat) /\ a \o b \in Seq(Nat)
         /\ (a \o (b \o c)) \o <<>> = (a \o b) \o c
         /\ ((a \o (b \o c)) \o <<>>) \o <<>> = (a \o b) \o c
         /\ ((a \o (b \o <<>>)) \o <<>>) \o c = (a \o b) \o c
         /\ <<>> \in Seq(Nat)
<1>1. b \o c \in Seq(Nat) /\ a \o b \in Seq(Nat) /\ a \o (b \o c) \in Seq(Nat) /\ <<>> \in Seq(Nat)
  BY ConcatProperties, EmptySeq
<1>2. (a \o b) \o c = a \o (b \o c)
  BY ConcatAssociative
<1>3. (a \o (b \o c)) \o <<>> = a \o (b \o c) /\ b \o <<>> = b /\ (a \o b) \o <<>> = a \o b
  BY <1>1, ConcatEmptySeq
<1>4. QED
  BY <1>1, <1>2, <1>3

(* A unit that is added to the pipe is added to the whole.                 *)
LEMMA WritingAdds ==
  ASSUME NEW a \in Seq(Nat), NEW c \in Seq(Nat), NEW e \in Nat
  PROVE  Append(c, e) \in Seq(Nat) /\ a \o Append(c, e) = Append(a \o c, e)
<1>1. <<e>> \in Seq(Nat) /\ a \o c \in Seq(Nat)
  BY ConcatProperties
<1>2. a \o (c \o <<e>>) = (a \o c) \o <<e>>
  BY <1>1, ConcatAssociative
<1>3. QED
  BY <1>1, <1>2, AppendIsConcat, AppendProperties

(* A step that moves no output, lets no child write and closes no pipe.    *)
LEMMA QuietKeeps ==
  ASSUME RecordInv, SafeInv', UNCHANGED Recording,
         \A k \in Kids : /\ kid'[k].wrote = kid[k].wrote
                         /\ kid'[k].state # kid[k].state =>
                              kid[k].state # "none" /\ kid'[k].state \notin {"none", "runs"}
  PROVE  RecordInv'
<1>1. \A k \in Recorders : k \in Kids /\ Output(k)' = Output(k)
  BY ChildAssumption DEF Output, Recording
<1>2. RecordTypeOK'
  BY DEF RecordInv, RecordTypeOK, Recording
<1>3. KeptWhole'
  BY <1>1 DEF RecordInv, KeptWhole, Recording, Units
<1>4. QED
  BY <1>2, <1>3 DEF RecordInv

(* A child writes into the pipe.                                           *)
LEMMA RecordWrites ==
  ASSUME RecordInv, SafeInv', NEW k \in Kids, Writes(k)
  PROVE  RecordInv'
<1>1. kid[k].wrote \in Nat /\ MaxOutput \in Nat
  BY ChildAssumption DEF RecordInv, SafeInv, ChildTypeOK, KidRecord
<1>2. \A j \in Kids : /\ j # k => kid'[j] = kid[j] /\ pipe'[j] = pipe[j]
                      /\ kid'[k].wrote = kid[k].wrote + 1 /\ kid'[k].state = kid[k].state
  BY DEF Writes, RecordInv, SafeInv, ChildTypeOK, KidRecord, RecordTypeOK
<1>3. pipe'[k] = IF reader[k] THEN Append(pipe[k], kid[k].wrote + 1) ELSE pipe[k]
  BY DEF Writes, RecordInv, RecordTypeOK
<1>4. RecordTypeOK'
  <2>1. pipe'[k] \in Seq(Nat)
    BY <1>1, <1>3, WritingAdds DEF RecordInv, RecordTypeOK
  <2>2. QED
    BY <2>1 DEF Writes, RecordInv, RecordTypeOK
<1>5. ASSUME NEW j \in Recorders
      PROVE  /\ Output(j)' = Units(kid'[j].wrote) /\ kid'[j].wrote <= MaxOutput
             /\ kid'[j].state = "runs" => reader'[j]
  <2>1. CASE j # k
    BY <1>2, <2>1, ChildAssumption DEF Writes, RecordInv, KeptWhole, Output, Units
  <2>2. CASE j = k
    <3>1. reader[k] /\ Output(k) = Units(kid[k].wrote) /\ kid[k].wrote + 1 <= MaxOutput
      BY <1>1, <2>2 DEF Writes, RecordInv, KeptWhole
    <3>2. taken[k] \o noted[k] \in Seq(Nat) /\ pipe[k] \in Seq(Nat)
      BY ConcatProperties DEF RecordInv, RecordTypeOK
    <3>3. Output(k)' = (taken[k] \o noted[k]) \o Append(pipe[k], kid[k].wrote + 1)
      BY <1>3, <3>1 DEF Writes, Output
    <3>4. Output(k)' = Append(Units(kid[k].wrote), kid[k].wrote + 1)
      <4>1. kid[k].wrote + 1 \in Nat /\ Units(kid[k].wrote) = (taken[k] \o noted[k]) \o pipe[k]
        BY <1>1, <3>1 DEF Output
      <4>2. ASSUME NEW e \in Nat
            PROVE  (taken[k] \o noted[k]) \o Append(pipe[k], e) = Append((taken[k] \o noted[k]) \o pipe[k], e)
        BY <3>2, WritingAdds
      <4>3. QED
        BY <3>3, <4>1, <4>2
    <3>5. Output(k)' = Units(kid'[k].wrote)
      BY <1>1, <1>2, <3>4, UnitsGrow
    <3>6. QED
      BY <1>2, <2>2, <3>1, <3>5 DEF Writes
  <2>3. QED
    BY <2>1, <2>2
<1>6. \A j \in Kids : kid'[j].state = "none" => kid'[j].wrote = 0
  BY <1>2 DEF Writes, RecordInv, KeptWhole
<1>7. QED
  BY <1>4, <1>5, <1>6 DEF RecordInv, KeptWhole

(* child_start: nothing is written and nothing recorded of a new child.    *)
LEMMA RecordStarts ==
  ASSUME RecordInv, SafeInv', NEW k \in Kids, child_start(k)
  PROVE  RecordInv'
<1>1. \A j \in Kids : j # k => kid'[j] = kid[j] /\ reader'[j] = reader[j]
  BY DEF child_start, RecordInv, SafeInv, ChildTypeOK, RecordTypeOK
<1>2. kid'[k].state = "runs" /\ kid'[k].wrote = IF k \in Recorders THEN 0 ELSE MaxOutput
  BY DEF child_start, RecordInv, SafeInv, ChildTypeOK, NoKid
<1>3. reader' \in [Kids -> BOOLEAN] /\ reader'[k] = (k \in Recorders)
  BY DEF child_start, RecordInv, RecordTypeOK
<1>4. RecordTypeOK'
  BY <1>3 DEF child_start, RecordInv, RecordTypeOK
<1>5. kid[k].wrote = 0
  BY DEF child_start, RecordInv, KeptWhole
<1>6. KeptWhole'
  <2>1. \A j \in Kids : Output(j)' = Output(j)
    BY DEF child_start, Output
  <2>2. \A j \in Kids : kid'[j].state = "none" => kid'[j].wrote = 0
    BY <1>1, <1>2 DEF RecordInv, KeptWhole
  <2>3. ASSUME NEW j \in Recorders
        PROVE  /\ Output(j)' = Units(kid'[j].wrote) /\ kid'[j].wrote <= MaxOutput
               /\ kid'[j].state = "runs" => reader'[j]
    <3>1. j \in Kids /\ Output(j) = Units(kid[j].wrote)
      BY ChildAssumption DEF RecordInv, KeptWhole
    <3>2. kid'[j].wrote = kid[j].wrote
      BY <1>1, <1>2, <1>5, <3>1
    <3>3. kid[j].wrote <= MaxOutput /\ (kid[j].state = "runs" => reader[j])
      BY DEF RecordInv, KeptWhole
    <3>4. kid'[j].state = "runs" => reader'[j]
      BY <1>1, <1>3, <3>1, <3>3
    <3>5. QED
      BY <2>1, <3>1, <3>2, <3>3, <3>4
  <2>4. QED
    BY <2>2, <2>3 DEF KeptWhole
<1>7. QED
  BY <1>4, <1>6 DEF RecordInv

(* fdrecorder_get_clean: the caller gets what was recorded, then what was  *)
(* in the pipe.                                                            *)
LEMMA RecordGets ==
  ASSUME RecordInv, SafeInv', NEW k \in Kids, fdrecorder_get_clean(k)
  PROVE  RecordInv'
<1> DEFINE left == IF reader[k] THEN pipe[k] ELSE <<>>
<1>1. /\ taken[k] \in Seq(Nat) /\ noted[k] \in Seq(Nat) /\ pipe[k] \in Seq(Nat) /\ left \in Seq(Nat)
      /\ noted[k] \o left \in Seq(Nat) /\ taken[k] \o (noted[k] \o left) \in Seq(Nat)
  BY MovingKeeps DEF RecordInv, RecordTypeOK
<1>2. /\ taken' = [taken EXCEPT ![k] = taken[k] \o (noted[k] \o left)]
      /\ noted' = [noted EXCEPT ![k] = <<>>]
      /\ pipe' = [pipe EXCEPT ![k] = IF reader[k] THEN <<>> ELSE pipe[k]]
      /\ reader' = [reader EXCEPT ![k] = reader[k] /\ kid[k].state = "runs"]
      /\ kid' = kid
  BY DEF fdrecorder_get_clean
<1>3. RecordTypeOK'
  <2>1. <<>> \in Seq(Nat)
    BY EmptySeq
  <2>2. QED
    BY <1>1, <1>2, <2>1 DEF RecordInv, RecordTypeOK
<1>4. \A j \in Kids : Output(j)' = Output(j)
  <2>1. SUFFICES ASSUME NEW j \in Kids PROVE Output(j)' = Output(j)
    OBVIOUS
  <2>2. CASE j # k
    BY <1>2, <2>2 DEF RecordInv, RecordTypeOK, Output
  <2>3. CASE j = k /\ reader[k]
    <3>1. Output(k)' = ((taken[k] \o (noted[k] \o pipe[k])) \o <<>>) \o <<>>
      BY <1>2, <2>3 DEF RecordInv, RecordTypeOK, Output
    <3>2. QED
      <4>1. ((taken[k] \o (noted[k] \o pipe[k])) \o <<>>) \o <<>> = (taken[k] \o noted[k]) \o pipe[k]
        <5>1. \A a, b, c \in Seq(Nat) : ((a \o (b \o c)) \o <<>>) \o <<>> = (a \o b) \o c
          BY MovingKeeps
        <5>2. QED
          BY <1>1, <5>1, ZenonT(30)
      <4>2. QED
        BY <2>3, <3>1, <4>1 DEF Output
  <2>4. CASE j = k /\ ~reader[k]
    <3>1. Output(k)' = ((taken[k] \o (noted[k] \o <<>>)) \o <<>>) \o pipe[k]
      BY <1>2, <2>4 DEF RecordInv, RecordTypeOK, Output
    <3>2. QED
      <4>1. ((taken[k] \o (noted[k] \o <<>>)) \o <<>>) \o pipe[k] = (taken[k] \o noted[k]) \o pipe[k]
        BY <1>1, MovingKeeps
      <4>2. QED
        BY <2>4, <3>1, <4>1 DEF Output
  <2>5. QED
    BY <2>2, <2>3, <2>4
<1>5. KeptWhole'
  <2>1. \A j \in Kids : kid[j].state = "runs" /\ reader[j] => reader'[j]
    BY <1>2 DEF RecordInv, RecordTypeOK
  <2>2. QED
    BY <1>2, <1>4, <2>1, ChildAssumption DEF RecordInv, KeptWhole, Units
<1>6. QED
  BY <1>3, <1>5 DEF RecordInv

(* The SIGIO handler polls every recorder, and closes those at end of file.*)
LEMMA RecordPolls ==
  ASSUME RecordInv, SafeInv', Sigio
  PROVE  RecordInv'
<1> DEFINE ks == ToSet(todo)
<1>1. /\ noted' = [k \in Kids |-> IF k \in ks /\ reader[k] THEN noted[k] \o pipe[k] ELSE noted[k]]
      /\ pipe' = [k \in Kids |-> IF k \in ks /\ reader[k] THEN <<>> ELSE pipe[k]]
      /\ reader' = [k \in Kids |-> reader[k] /\ ~(k \in ks /\ kid[k].state \in {"zombie", "gone"})]
      /\ taken' = taken /\ kid' = kid
  BY DEF Sigio, fdrecorder_poll
<1> HIDE DEF ks
<1>2. \A k \in Kids : /\ taken[k] \in Seq(Nat) /\ noted[k] \in Seq(Nat) /\ pipe[k] \in Seq(Nat)
                      /\ noted[k] \o pipe[k] \in Seq(Nat) /\ <<>> \in Seq(Nat)
                      /\ (taken[k] \o (noted[k] \o pipe[k])) \o <<>> = (taken[k] \o noted[k]) \o pipe[k]
  BY MovingKeeps DEF RecordInv, RecordTypeOK
<1>3. RecordTypeOK'
  BY <1>1, <1>2 DEF RecordInv, RecordTypeOK
<1>4. \A k \in Kids : Output(k)' = Output(k)
  BY <1>1, <1>2 DEF Output
<1>5. KeptWhole'
  <2>1. \A k \in Kids : kid[k].state = "runs" /\ reader[k] => reader'[k]
    BY <1>1
  <2>2. QED
    BY <1>1, <1>4, <2>1, ChildAssumption DEF RecordInv, KeptWhole, Units
<1>6. QED
  BY <1>3, <1>5 DEF RecordInv

(* At the start no child has written and nothing is recorded.              *)
LEMMA RecordInit ==
  ASSUME ChildInit
  PROVE  RecordInv
<1>1. <<>> \in Seq(Nat) /\ (<<>> \o <<>>) \o <<>> = Units(0)
  BY DEF Units
<1>2. RecordTypeOK
  BY <1>1 DEF ChildInit, RecordTypeOK
<1>3. KeptWhole
  <2>1. \A k \in Kids : kid[k].wrote = 0 /\ kid[k].state = "none"
    BY DEF ChildInit, NoKid
  <2>2. \A k \in Kids : Output(k) = (<<>> \o <<>>) \o <<>>
    BY DEF ChildInit, Output
  <2>3. QED
    BY <1>1, <2>1, <2>2, ChildAssumption DEF KeptWhole
<1>4. QED
  BY <1>2, <1>3, SafeInit DEF RecordInv

(* Every other step is quiet: kill(2), waitpid, marking, other processes.  *)
LEMMA RecordNext ==
  ASSUME RecordInv, [ChildNext]_childvars
  PROVE  RecordInv'
<1>1. SafeInv /\ SafeInv' /\ kid \in [Kids -> KidRecord]
  BY SafeNext DEF RecordInv, SafeInv, ChildTypeOK
<1>2. ASSUME NEW k \in Kids, KidStep(k) PROVE RecordInv'
  <2>1. CASE Writes(k)
    BY <1>1, <2>1, RecordWrites
  <2>2. CASE Exits(k)
    BY <1>1, <2>2, QuietKeeps DEF Exits, Recording, KidRecord
  <2>3. QED
    BY <1>2, <2>1, <2>2 DEF KidStep
<1>3. ASSUME NEW k \in Kids, Calls(k) PROVE RecordInv'
  <2>1. CASE child_start(k)
    BY <1>1, <2>1, RecordStarts
  <2>2. CASE child_wait(k)
    BY <1>1, <2>2, QuietKeeps DEF child_wait
  <2>3. CASE child_kill(k)
    <3>1. {k} \in SUBSET Kids /\ where # "reaped" /\ Kill({k})
      BY <2>3 DEF child_kill
    <3>2. \A j \in Kids : kid'[j].state = kid[j].state /\ kid'[j].wrote = kid[j].wrote
      BY <1>1, <3>1, KillIsSafe
    <3>3. QED
      BY <1>1, <2>3, <3>2, QuietKeeps DEF child_kill
  <2>4. CASE child_poll_death(k)
    BY <1>1, <2>4, QuietKeeps DEF child_poll_death, KidRecord
  <2>5. CASE fdrecorder_get_clean(k)
    BY <1>1, <2>5, RecordGets
  <2>6. QED
    BY <1>3, <2>1, <2>2, <2>3, <2>4, <2>5 DEF Calls
<1>4. CASE Returns
  <2>1. CASE Waitpid
    <3>1. target \in Kids
      BY <1>1, <2>1 DEF Waitpid, SafeInv, ChildTypeOK, Waiting
    <3>2. \A j \in Kids : /\ kid'[j].wrote = kid[j].wrote
                          /\ kid'[j].state # kid[j].state =>
                              kid[j].state # "none" /\ kid'[j].state \notin {"none", "runs"}
      BY <1>1, <2>1, <3>1 DEF Waitpid, KidRecord
    <3>3. QED
      <4>1. UNCHANGED Recording
        BY <2>1 DEF Waitpid
      <4>2. QED
        BY <1>1, <3>2, <4>1, QuietKeeps
  <2>2. CASE MarkDead
    BY <1>1, <2>2, QuietKeeps DEF MarkDead, KidRecord
  <2>3. CASE child_cleanup
    <3>1. CASE todo = <<>>
      BY <1>1, <2>3, <3>1, QuietKeeps DEF child_cleanup
    <3>2. CASE todo # <<>>
      <4>1. {Head(todo)} \in SUBSET Kids /\ where # "reaped" /\ Kill({Head(todo)})
        BY <1>1, <2>3, <3>2, TodoFacts DEF child_cleanup, SafeInv
      <4>2. \A j \in Kids : kid'[j].state = kid[j].state /\ kid'[j].wrote = kid[j].wrote
        BY <1>1, <4>1, KillIsSafe
      <4>3. QED
        BY <1>1, <2>3, <4>2, QuietKeeps DEF child_cleanup
    <3>3. QED
      BY <3>1, <3>2
  <2>4. QED
    BY <1>4, <2>1, <2>2, <2>3 DEF Returns
<1>5. CASE Handlers
  <2>1. CASE Sigio
    BY <1>1, <2>1, RecordPolls
  <2>2. CASE Sigchld
    BY <1>1, <2>2, QuietKeeps DEF Sigchld
  <2>3. CASE HandleQuit
    <3>1. where # "reaped"
      BY <2>3 DEF HandleQuit, LetIn
    <3>2. ToSet(todo) \in SUBSET Kids /\ Kill(ToSet(todo))
      BY <1>1, <2>3, TodoFacts DEF HandleQuit, SafeInv
    <3>3. \A j \in Kids : kid'[j].state = kid[j].state /\ kid'[j].wrote = kid[j].wrote
      BY <1>1, <3>1, <3>2, KillIsSafe
    <3>4. QED
      BY <1>1, <2>3, <3>3, QuietKeeps DEF HandleQuit
  <2>4. QED
    BY <1>5, <2>1, <2>2, <2>3 DEF Handlers
<1>6. CASE \E p \in Pids : Reused(p)
  BY <1>1, <1>6, QuietKeeps DEF Reused
<1>7. CASE Quits \/ Ends
  BY <1>1, <1>7, QuietKeeps DEF Quits, Ends
<1>8. CASE UNCHANGED childvars
  BY <1>1, <1>8, QuietKeeps DEF childvars, Recording
<1>9. QED
  BY <1>2, <1>3, <1>4, <1>5, <1>6, <1>7, <1>8 DEF ChildNext

(* Nothing a child writes is lost, repeated or reordered on its way to the *)
(* caller of fdrecorder_get_clean, whether the SIGIO handler or the call   *)
(* comes first, and whether the child has ended or not.                    *)
THEOREM OutputRecorded == ChildSpec => []Recorded
<1>1. ChildInit => RecordInv
  BY RecordInit
<1>2. RecordInv /\ [ChildNext]_childvars => RecordInv'
  BY RecordNext
<1>3. RecordInv => Recorded
  <2>1. SUFFICES ASSUME RecordInv, NEW k \in Kids, k \in Recorders
                 PROVE  /\ IsPrefix(Output(k), Units(MaxOutput)) /\ Len(Output(k)) = kid[k].wrote
    BY DEF Recorded, Output, Units
  <2>2. kid[k].wrote \in Nat /\ MaxOutput \in Nat
    BY <2>1, ChildAssumption DEF RecordInv, SafeInv, ChildTypeOK, KidRecord
  <2>3. Output(k) = Units(kid[k].wrote) /\ kid[k].wrote <= MaxOutput
    BY <2>1 DEF RecordInv, KeptWhole
  <2>4. QED
    BY <2>2, <2>3, UnitsGrow, UnitsPrefix
<1>4. QED
  BY <1>1, <1>2, <1>3, PTL DEF ChildSpec

============================================================================
