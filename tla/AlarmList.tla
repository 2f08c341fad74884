----------------------------- MODULE AlarmList -----------------------------
(***************************************************************************)
(* The timers of ch10/p5.c: a sorted list, one alarm for its head, and a   *)
(* SIGALRM handler that runs the head, between any two lines of an         *)
(* insertion too.  A list stands for the timer it is reached from by next. *)
(* Time is counted in seconds.  alarm(0) sets no alarm, a negative number  *)
(* is some 2^32 seconds.                                                   *)
(***************************************************************************)
EXTENDS Integers, SequencesExt

CONSTANTS Timers,        \* 1 .. n: the calls of settimeout, in their order
          MaxSeconds, MaxTime,
          Null

VARIABLES now, alarm,    \* the time; when the alarm goes off, or Null
          pc,            \* the main program: "idle" or a line of push_to_timer_list; "crashed"
                         \* by a null pointer; "wild" once the contents of a freed timer are
                         \* used: anything may follow, and none of it is modelled
          t, cur, cur_time,   \* its locals: the new timer, the list from cur
          next,          \* the list that follows the new timer
          ended_at,      \* per timer
          head,          \* the list from head
          called,        \* when each timer's proc ran, or Null
          missed,        \* an alarm was not set, or a timer linked behind a freed one
          relinked       \* a freed timer is in the list

local == <<pc, t, cur, cur_time, next>>
lists == <<head, ended_at, called, missed, relinked>>
vars == <<now, alarm, local, lists>>

Init ==
  /\ now = 0 /\ alarm = Null
  /\ pc = "idle" /\ t = 0 /\ cur = <<>> /\ cur_time = 0 /\ next = <<>>
  /\ ended_at = [n \in Timers |-> 0]
  /\ head = <<>>
  /\ called = [n \in Timers |-> Null]
  /\ missed = FALSE /\ relinked = FALSE

\* alarm replaces the alarm that is set
SetAlarm(s) == alarm' = IF s > 0 THEN now + s ELSE Null
Missed(s) == missed' = (missed \/ s <= 0)

\* the handler frees the timers it ran; malloc may give one out again
Freed(n) == called[n] # Null

settimeout(s) ==
  /\ pc = "idle"
  /\ t + 1 \in Timers
  /\ t' = t + 1
  /\ ended_at' = [ended_at EXCEPT ![t'] = now + s]
  /\ IF s = 0 THEN called' = [called EXCEPT ![t'] = now] /\ UNCHANGED pc
     ELSE /\ pc' = IF \E k \in DOMAIN head : Freed(head[k]) THEN "wild" ELSE "time"
          /\ UNCHANGED called
  /\ UNCHANGED <<now, alarm, cur, cur_time, next, head, missed, relinked>>

Time ==
  /\ pc = "time"
  /\ cur_time' = now
  /\ pc' = "cur"
  /\ UNCHANGED <<now, alarm, t, cur, next, lists>>

\* the list is read; nothing comes between an empty one, which has no alarm, and its first
\* timer
Cur ==
  /\ pc = "cur"
  /\ cur' = head
  /\ IF head = <<>> THEN head' = <<t>> /\ pc' = "alarm" ELSE pc' = "test" /\ UNCHANGED head
  /\ UNCHANGED <<now, alarm, t, cur_time, next, ended_at, called, missed, relinked>>

\* head is read again: before it, or behind cur?
Test ==
  /\ pc = "test"
  /\ pc' = IF head = <<>> THEN "crashed"
           ELSE IF ended_at[head[1]] > ended_at[t] THEN "next" ELSE "walk"
  /\ UNCHANGED <<now, alarm, t, cur, cur_time, next, lists>>

\* the two writes that put the timer before the head
SetNext ==
  /\ pc = "next"
  /\ next' = head
  /\ pc' = "head"
  /\ UNCHANGED <<now, alarm, t, cur, cur_time, lists>>

SetHead ==
  /\ pc = "head"
  /\ head' = <<t>> \o next
  /\ relinked' = (relinked \/ next # head)
  /\ pc' = "alarm"
  /\ UNCHANGED <<now, alarm, t, cur, cur_time, next, ended_at, called, missed>>

\* the alarm for a new head; the handler may have emptied the list in between
Alarm ==
  /\ pc = "alarm"
  /\ IF head = <<>> THEN pc' = "crashed" /\ UNCHANGED <<alarm, missed>>
     ELSE /\ SetAlarm(ended_at[head[1]] - cur_time)
          /\ Missed(ended_at[head[1]] - cur_time)
          /\ pc' = "return"
  /\ cur' = <<>> /\ next' = <<>>
  /\ UNCHANGED <<now, t, cur_time, ended_at, head, called, relinked>>

\* along the list, as long as the next timer ends before the new one; a freed timer leads
\* on, but its own time is no longer there
Walk ==
  /\ pc = "walk"
  /\ \/ /\ Len(cur) > 1 /\ (Freed(cur[2]) \/ ended_at[cur[2]] < ended_at[t])
        /\ cur' = Tail(cur) /\ UNCHANGED pc
     \/ /\ Len(cur) > 1 => Freed(cur[2]) \/ ended_at[cur[2]] >= ended_at[t]
        /\ pc' = "link" /\ UNCHANGED cur
  /\ UNCHANGED <<now, alarm, t, cur_time, next, lists>>

\* behind cur, which the handler may have freed: the timer is not in the list then (what
\* follows cur is freed after it, so it does not matter when next is set)
Link ==
  /\ pc = "link"
  /\ cur' = <<>>
  /\ head' = IF Contains(head, cur[1])
             THEN InsertAt(head, 1 + CHOOSE k \in DOMAIN head : head[k] = cur[1], t)
             ELSE head
  /\ pc' = "return"
  /\ missed' = (missed \/ ~Contains(head, cur[1]))
  /\ UNCHANGED <<now, alarm, t, cur_time, next, ended_at, called, relinked>>

\* the seconds returned are the head's
Return ==
  /\ pc = "return"
  /\ pc' = IF head = <<>> THEN "crashed" ELSE "idle"
  /\ UNCHANGED <<now, alarm, t, cur, cur_time, next, lists>>

\* mutant: no alarm is set for the next timer
alarm_procOnce ==
  /\ alarm # Null /\ now >= alarm /\ pc \notin {"crashed", "wild"}
  /\ head # <<>>
  /\ called' = [called EXCEPT ![head[1]] = now]
  /\ head' = Tail(head)
  /\ alarm' = Null
  /\ UNCHANGED <<now, local, ended_at, missed, relinked>>

\* the handler: the alarm for the next timer, then the head is freed and, still readable,
\* gives its next
alarm_proc ==
  /\ alarm # Null /\ now >= alarm /\ pc \notin {"crashed", "wild"}
  /\ IF head = <<>> THEN pc' = "crashed" /\ UNCHANGED <<alarm, called, head, missed>>
     ELSE IF \E k \in {1, 2} \cap DOMAIN head : Freed(head[k])
     THEN pc' = "wild" /\ UNCHANGED <<alarm, called, head, missed>>
     ELSE /\ called' = [called EXCEPT ![head[1]] = now]
          /\ head' = Tail(head)
          /\ IF Len(head) = 1 THEN alarm' = Null /\ UNCHANGED missed
             ELSE /\ SetAlarm(ended_at[head[2]] - ended_at[head[1]])
                  /\ Missed(ended_at[head[2]] - ended_at[head[1]])
          /\ UNCHANGED pc
  /\ UNCHANGED <<now, t, cur, cur_time, next, ended_at, relinked>>

Tick ==
  /\ now < MaxTime
  /\ now' = now + 1
  /\ UNCHANGED <<alarm, local, lists>>

Next == \/ \E s \in 0 .. MaxSeconds : settimeout(s)
        \/ Time \/ Cur \/ Test \/ SetNext \/ SetHead \/ Alarm \/ Walk \/ Link
        \/ Return
        \/ alarm_proc \/ Tick
Spec == Init /\ [][Next]_vars

\* main pauses for ever, but the time of the model ends
Done == /\ now = MaxTime
        /\ \/ pc \in {"crashed", "wild"}
           \/ pc = "idle" /\ (alarm # Null => alarm > now)
-----------------------------------------------------------------------------
\* No proc runs before its time.  A timer in the list did not run, and none is used after it
\* was freed, unless the handler came between the two writes that put a timer before the
\* head.  And while a timer waits in the list, which is sorted, an alarm is set for it, unless
\* one was asked for in no time or a timer was linked behind one the handler had freed.
TimersRun ==
  /\ \A n \in Timers : called[n] # Null => called[n] >= ended_at[n]
  /\ ~relinked => pc # "wild" /\ \A k \in DOMAIN head : called[head[k]] = Null
  /\ \A k \in DOMAIN head : k > 1 => ended_at[head[k - 1]] <= ended_at[head[k]]
  /\ pc = "idle" /\ head # <<>> /\ ~missed => alarm # Null
=============================================================================
