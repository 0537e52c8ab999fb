---------------------------- MODULE SourceNodes ----------------------------
(***************************************************************************)
(* The node types that emit by themselves, and the triggers, which tell    *)
(* other nodes what to do.                                                 *)
(*                                                                         *)
(* `out` holds what such a node emitted and, for the triggers, what it     *)
(* told its targets.  A file, a directory and the calendar are modelled as *)
(* a port: Wire creates it, Send adds a line, a file or a minute.          *)
(*                                                                         *)
(* A definition marked "Defect" is a wrong version of the one after it, to *)
(* check that the properties would notice; no specification uses it.       *)
(***************************************************************************)
EXTENDS NodeLoop

(* The calendar.                                                           *)

\* parse_cron_part(): a set of tokens, each a star, a number or a range, with
\* a step that counts from the token's own first value.
Token(from, to, step) == [from |-> from, to |-> to, step |-> step]
CronValues(tokens) ==
  UNION {{v \in t.from..t.to : (v - t.from) % t.step = 0} : t \in tokens}

EveryDay     == {Token(1, 31, 1)}
EveryWeekday == {Token(0, 7, 1)}

\* init(): the sets of the fields, and which of the days are restricted.
CronField(minutes, dom, dow) ==
  [minute |-> CronValues(minutes),
   dom |-> CronValues(dom), dow |-> {v % 7 : v \in CronValues(dow)},
   domRestricted |-> dom # EveryDay, dowRestricted |-> dow # EveryWeekday]

\* "*/2 * * * *", "1 2 * * *" in the order minute, day; and the 2nd of the month
\* or a Sunday, which is day 7 as well as day 0.
CronFields ==
  {CronField({Token(0, 59, 2)}, EveryDay, EveryWeekday),
   CronField({Token(1, 1, 1)}, {Token(2, 2, 1)}, EveryWeekday),
   CronField({Token(0, 59, 1)}, {Token(2, 2, 1)}, {Token(7, 7, 1)})}

\* Two minutes of each day are looked at; the first day is a Sunday.
Minutes == Len(pipe["minute"])
Now == [minute |-> Minutes % 2, day |-> 1 + (Minutes \div 2),
        isoweekday |-> IF Minutes < 2 THEN 7 ELSE Minutes \div 2]

\* _matches(): with both days restricted, one of the two is enough.
CronMatches(field) ==
  LET domOk == Now.day \in field.dom
      dowOk == (Now.isoweekday % 7) \in field.dow
  IN /\ Now.minute \in field.minute
     /\ IF field.domRestricted /\ field.dowRestricted
        THEN domOk \/ dowOk
        ELSE domOk /\ dowOk

-----------------------------------------------------------------------------
SourceType(t, ports, opt) ==
  [type |-> t, ports |-> ports, polls |-> "first", opt |-> opt,
   varies |-> IF t = "trigger_if" THEN ToSet(ports) ELSE {}]

SourceTypes ==
  {SourceType(t, <<>>, <<>>) : t \in {"timer", "url_input"}}
  \cup {SourceType("clock", <<"in">>, [resets |-> r]) : r \in BOOLEAN}
  \cup {SourceType("cron", <<"minute">>, f) : f \in CronFields}
  \cup {SourceType("generator", <<>>, [count |-> n]) : n \in {0, 2}}
  \cup {SourceType("constant", <<>>, [repeat |-> r]) : r \in BOOLEAN}
  \cup {SourceType("list_strings", <<>>, [length |-> n, loop |-> l]) :
          n \in {0, 2}, l \in BOOLEAN}
  \cup {SourceType(t, <<"file">>, <<>>) : t \in {"file_input", "json_input"}}
  \cup {SourceType("directory", <<"file">>, <<>>)}
  \cup {SourceType(t, <<"in">>, [graph |-> <<"a", "b">>, own |-> <<"c">>]) :
          t \in {"trigger_on", "trigger_if", "trigger_toggle"}}
  \cup {SourceType("trigger", <<"in">>, [graph |-> g, own |-> <<"c">>, delay |-> d]) :
          g \in {<<>>, <<"a", "b">>}, d \in BOOLEAN}
  \cup {SourceType("debounce", <<"in">>, [graph |-> g, own |-> <<"c">>]) :
          g \in {<<>>, <<"a", "b">>}}
  \cup {SourceType("threshold", <<"in">>, [graph |-> <<>>, own |-> <<"c">>,
                                          threshold |-> n, resets |-> r]) :
          n \in {1, 2}, r \in BOOLEAN}
  \cup {SourceType("timer_trigger", <<>>, [graph |-> <<>>, own |-> <<>>])}
  \cup {SourceType("pulse", <<>>, [graph |-> <<>>, own |-> <<"c">>, count |-> n]) :
          n \in {0, 2}}

Says(s, what, form) == Give(s, what, <<"out">>, form)
Ends(s) == [s EXCEPT !.pc = "ended"]

-----------------------------------------------------------------------------
(* Clocks and lists.  mem.n is the counter on self.                        *)

Timer == Turn("timer", [Says(Self, mem.n + 1, "tick") EXCEPT !.mem.n = @ + 1])

\* With reset_on_input the first port is polled before each tick.
ClockTick(s) == [Says(s, s.mem.n, "tick") EXCEPT !.mem.n = @ + 1]
Clock ==
  \/ Turn("clock", ClockTick(Self)) /\ (node.opt.resets => Polled = <<>>)
  \/ /\ node.type = "clock"
     /\ node.opt.resets
     /\ Len(out) < MaxOut
     /\ Poll(LAMBDA s, p, i : [s EXCEPT !.mem.n = 0], ClockTick)

\* Defect: the counter is a local variable of process().
GeneratorRestarts ==
  Turn("generator",
       LET i == IF local = <<>> THEN 0 ELSE local[1]
       IN IF i >= node.opt.count THEN Ends(Self)
          ELSE [Says(Self, i, "value") EXCEPT !.local = <<i + 1>>])

\* count items, numbered from 0, and the process is over.
Generator ==
  Turn("generator", IF mem.n >= node.opt.count THEN Ends(Self)
                    ELSE [Says(Self, mem.n, "value") EXCEPT !.mem.n = @ + 1])

\* The value once, and with 'repeat' again after each interval.
Constant ==
  Turn("constant", IF node.opt.repeat THEN Says(Self, 0, "value")
                   ELSE Ends(Says(Self, 0, "value")))

\* The strings one by one; without 'loop' the last is followed by a 'done',
\* and the process is over.  A process that begins at the end of the list
\* begins with its first string.
ListStrings ==
  Turn("list_strings",
       LET k == IF mem.n >= node.opt.length THEN 0 ELSE mem.n
           t == [Says(Self, k, "value") EXCEPT
                   !.mem.n = IF node.opt.loop THEN (k + 1) % node.opt.length ELSE k + 1]
       IN IF node.opt.length = 0 THEN Self
          ELSE IF ~node.opt.loop /\ k + 1 = node.opt.length THEN Ends(Says(t, k, "done"))
          ELSE t)

\* Every poll_interval, what a request returned; a failure emits nothing.
\* The request is awaited: the node may be paused in it.
UrlInput ==
  \/ pc = "loop" /\ Turn("url_input", [Self EXCEPT !.pc = "request"])
  \/ /\ node.type = "url_input"
     /\ pc = "request"
     /\ Len(out) < MaxOut
     /\ \E ok \in BOOLEAN :
          out' = IF ok THEN Append(out, Emission(0, <<"out">>, "value")) ELSE out
     /\ pc' = "loop"
     /\ UNCHANGED <<node, envVars, lifeVars, turn, pass, local, mem, pipe, got, base>>

\* A minute that matches fires once, however often it is looked at.
Cron ==
  Turn("cron", IF mem.last # <<Minutes>> /\ CronMatches(node.opt)
               THEN [Says(Self, Minutes, "tick") EXCEPT !.mem.last = <<Minutes>>]
               ELSE Self)

-----------------------------------------------------------------------------
(* Files.  local.size is last_size, and local.stat the size just found: the *)
(* file may grow between stat() and read_bytes().  Neither awaits, so no    *)
(* pause comes between them.  What is emitted is the set of the lines, or   *)
(* entries, that one turn passes on.                                        *)

Exists == Contains(wired, "file")
Content == pipe["file"]
Reading == pc = "read"

FileStat ==
  /\ node.type \in {"file_input", "json_input"}
  /\ pc = "loop"
  /\ Exists
  /\ Len(Content) > local.size
  /\ pc' = "read"
  /\ local' = [local EXCEPT !.stat = Len(Content)]
  /\ UNCHANGED <<node, envVars, lifeVars, turn, pass, dataVars>>

\* Everything from last_size to the end of the file is emitted (json_input:
\* line by line), and last_size is what stat() said.
FileRead ==
  /\ Reading
  /\ Len(out) < MaxOut
  /\ LET new == {Content[k] : k \in (local.size + 1)..Len(Content)}
     IN out' = Append(out, Emission(new, <<"out">>, "data"))
  /\ local' = [local EXCEPT !.size = local.stat]
  /\ pc' = "loop"
  /\ UNCHANGED <<node, envVars, lifeVars, turn, pass, pipe, mem, got, base>>

\* The entries not seen by this task, with local.seen the entries it has seen.
Directory ==
  /\ node.type = "directory"
  /\ pc = "loop"
  /\ Exists
  /\ LET new == ToSet(Content) \ local.seen
     IN /\ new # {}
        /\ Turn("directory", [Says(Self, new, "data") EXCEPT !.local.seen = @ \cup new])

-----------------------------------------------------------------------------
(* Triggers.  While a trigger awaits handle_control() of its targets, local *)
(* holds the item, the action, and the targets still to be told.           *)

\* The targets that are wired in the graph, else the one of the config.
Targets == IF node.opt.graph # <<>> THEN node.opt.graph ELSE node.opt.own

Fires(s, i, action) ==
  [s EXCEPT !.pc = "trigger", !.local = [item |-> i, action |-> action, left |-> Targets]]

\* pause, off and on triggers differ in the action only.
Trigger ==
  /\ node.type = "trigger"
  /\ Poll(LAMBDA s, p, i : [Fires(s, i, "start") EXCEPT
                              !.pc = IF node.opt.delay THEN "delay" ELSE @],
          LAMBDA s : s)
TriggerOn == node.type = "trigger_on" /\ Poll(LAMBDA s, p, i : Fires(s, i, "start"), LAMBDA s : s)

TriggerIf ==
  /\ node.type = "trigger_if"
  /\ Poll(LAMBDA s, p, i : IF i.ok THEN Fires(s, i, "start") ELSE Says(s, i, "skip"),
          LAMBDA s : s)

TriggerToggle ==
  /\ node.type = "trigger_toggle"
  /\ Poll(LAMBDA s, p, i : [Fires(s, i, IF s.mem.on THEN "stop" ELSE "start") EXCEPT
                              !.mem.on = ~@],
          LAMBDA s : s)

Threshold ==
  /\ node.type = "threshold"
  /\ Poll(LAMBDA s, p, i :
            LET t == [s EXCEPT !.mem.n = @ + 1]
            IN IF t.mem.n >= node.opt.threshold THEN Fires(t, i, "start") ELSE t,
          LAMBDA s : s)

\* These fire at each turn, whatever they read.
TimerTrigger == Turn("timer_trigger", Fires(Self, Len(out), "start"))
Pulse        == Turn("pulse", Fires(Self, mem.n, "start"))

Delay ==
  /\ pc = "delay"
  /\ pc' = "trigger"
  /\ UNCHANGED <<node, envVars, lifeVars, turn, pass, local, dataVars>>

\* One target is told, or is not registered.
TellTarget ==
  /\ pc = "trigger"
  /\ local.left # <<>>
  /\ local' = [local EXCEPT !.left = Tail(@)]
  /\ out' \in {out, Append(out, Emission(local.item, <<Head(local.left)>>, local.action))}
  /\ UNCHANGED <<node, envVars, lifeVars, pc, turn, pass, mem, pipe, got, base>>

\* handle_control() of a target raises (and no TimeoutError, which some loops
\* take for one of their own): a TriggerNode goes on with the next item, any
\* other trigger's process lets it through.
TargetFails ==
  /\ pc = "trigger"
  /\ local.left # <<>>
  /\ IF node.type = "trigger" THEN Again(out, mem, <<>>)
     ELSE /\ pc' = "failed"
          /\ local' = <<>>
          /\ UNCHANGED <<node, envVars, lifeVars, turn, pass, dataVars>>

\* After the last of pulse_count pulses the process is over: the count is
\* looked at only here, so a process that begins again sends one more.
PulseDone ==
  /\ node.type = "pulse"
  /\ pc = "trigger"
  /\ local.left = <<>>
  /\ LET n == mem.n + 1
         told == Append(out, Emission(mem.n, <<"out">>, "pulse"))
     IN IF node.opt.count > 0 /\ n >= node.opt.count
        THEN /\ Becomes([Self EXCEPT !.out = told, !.mem.n = n, !.pc = "ended", !.local = <<>>])
             /\ UNCHANGED <<node, envVars, lifeVars, turn, pass, pipe, got, base>>
        ELSE Again(told, [mem EXCEPT !.n = n], <<>>)

\* All targets are told, and then the trigger says so (a threshold said its
\* count before, and may start again from 0).
TriggerDone ==
  /\ node.type \notin {"pulse", "debounce"}
  /\ pc = "trigger"
  /\ local.left = <<>>
  /\ IF node.type = "threshold"
     THEN Again(out, IF node.opt.resets THEN [mem EXCEPT !.n = 0] ELSE mem, <<>>)
     ELSE Again(Append(out, Emission(local.item, <<"out">>, local.action)), mem, <<>>)

-----------------------------------------------------------------------------
(* Debounce.  Every item cancels the timer of the one before, and starts    *)
(* its own.  A timer is a task of its own, which no pause or stop cancels:  *)
(* mem.timers are those alive, mem.current the one that `_timer` holds      *)
(* (0: None).  One that is awake is suspended in handle_control() of the    *)
(* first target in left.  When that pauses or stops the target, it may take *)
(* the cancellation for that of the target's own task: the timer goes on,   *)
(* and mem.deaf counts it.                                                  *)

TimerOf(i) == [id |-> i.n, left |-> Targets, asleep |-> TRUE]

\* Defect: the timer of the item before is not cancelled.
DebounceTakeKeeps(s, i, swallowed) ==
  [s EXCEPT !.mem.timers = @ \cup {TimerOf(i)}, !.mem.current = i.n]

DebounceTake(s, i, swallowed) ==
  LET old  == {t \in s.mem.timers : t.id = s.mem.current}
      deaf == {t \in old : swallowed /\ ~t.asleep}
  IN [s EXCEPT !.mem.timers = (@ \ old) \cup deaf \cup {TimerOf(i)},
               !.mem.current = i.n,
               !.mem.deaf = @ + Cardinality(deaf)]

Debounce ==
  /\ node.type = "debounce"
  /\ \E swallowed \in BOOLEAN :
       Poll(LAMBDA s, p, i : DebounceTake(s, i, swallowed), LAMBDA s : s)

TimerStep(m, o) ==
  /\ node.type = "debounce"
  /\ mem' = m
  /\ out' = o
  /\ UNCHANGED <<node, envVars, lifeVars, loopVars, pipe, got, base>>

TimerWakes(t) ==
  /\ t.asleep
  /\ TimerStep([mem EXCEPT !.timers = (@ \ {t}) \cup {[t EXCEPT !.asleep = FALSE]}], out)

\* One target is told, or is not registered.  After the last one the node
\* emits, and forgets its timer, which may be another one by now.
TimerTells(t) ==
  /\ ~t.asleep
  /\ \E o \in {out, Append(out, Emission(t.id, <<Head(t.left)>>, "start"))} :
       IF Tail(t.left) # <<>>
       THEN TimerStep([mem EXCEPT !.timers = (@ \ {t}) \cup {[t EXCEPT !.left = Tail(@)]}], o)
       ELSE TimerStep([mem EXCEPT !.timers = @ \ {t}, !.current = 0],
                      Append(o, Emission(t.id, <<"out">>, "start")))

\* handle_control() of the target raises: `_timer` holds a task that is over.
TimerFails(t) ==
  /\ ~t.asleep
  /\ TimerStep([mem EXCEPT !.timers = @ \ {t}], out)

\* A timer wakes when the debounce time is over.
DelayedTrigger(t) == TimerWakes(t) \/ TimerTells(t) \/ TimerFails(t)

Timers == IF node.type = "debounce" /\ mem # <<>> THEN mem.timers ELSE {}

-----------------------------------------------------------------------------

SourceStep ==
  \/ Timer \/ Clock \/ Generator \/ Constant \/ ListStrings \/ UrlInput \/ Cron
  \/ FileStat \/ FileRead \/ Directory
  \/ Trigger \/ TriggerOn \/ TriggerIf \/ TriggerToggle \/ Threshold
  \/ TimerTrigger \/ Pulse
  \/ Delay \/ TellTarget \/ TargetFails \/ TriggerDone \/ PulseDone
  \/ Debounce \/ \E t \in Timers : DelayedTrigger(t)

\* What init() sets (a debounce timer outlives it) and the locals that
\* process() begins with.
SourceMem ==
  CASE node.type \in {"timer", "clock", "generator", "list_strings", "pulse", "threshold"} ->
         [n |-> 0]
    [] node.type = "cron" -> [last |-> <<>>]
    [] node.type = "trigger_toggle" -> [on |-> FALSE]
    [] node.type = "debounce" ->
         [timers |-> Timers, current |-> 0, deaf |-> IF mem = <<>> THEN 0 ELSE mem.deaf]
    [] OTHER -> <<>>
SourceLocal ==
  CASE node.type \in {"file_input", "json_input"} -> [size |-> 0, stat |-> 0]
    [] node.type = "directory" -> [seen |-> {}]
    [] OTHER -> <<>>

-----------------------------------------------------------------------------
(* Properties.                                                             *)

Numbers == [k \in DOMAIN out |-> out[k].item]

\* A counter that is kept on self goes on where it was when the node was
\* paused: one number follows the other, and only init() begins anew.
CountsOn ==
  node.type \in {"timer", "generator"} =>
    /\ \A k \in 1..(Len(out) - 1) :
         Numbers[k + 1] = Numbers[k] + 1 \/ Numbers[k + 1] = Numbers[1]
    /\ Cardinality({k \in DOMAIN out : Numbers[k] = Numbers[1]}) <= starts

\* A list is played from its beginning to its end, wherever it is paused: only
\* init() begins it anew before its end.
PlayedInFull ==
  node.type = "list_strings" =>
    LET Follows(k) ==
          CASE out[k].form = "done"   -> Numbers[k + 1] = 0
            [] out[k+1].form = "done" -> Numbers[k] = Numbers[k + 1]
            [] OTHER -> Numbers[k + 1] = (Numbers[k] + 1) % node.opt.length
    IN Cardinality({k \in 1..(Len(out) - 1) : ~Follows(k)}) <= starts

\* A minute that matches fires once, and only again after a restart.
FiresOncePerMinute ==
  node.type = "cron" =>
    /\ \A j, k \in DOMAIN out : j < k => Numbers[j] <= Numbers[k]
    /\ \A m \in 0..MaxItems : Cardinality({k \in DOMAIN out : Numbers[k] = m}) <= starts

\* A file or directory that is read on and on is emitted without a gap: what
\* was there when the size was last taken has been emitted.  It is begun anew
\* by each process(), though (its place is a local variable), also by that of a
\* resume(), and by nothing else.
Files == {"file_input", "json_input", "directory"}
Emitted == UNION {out[k].item : k \in DOMAIN out}
Beginnings == {k \in DOMAIN out : Content[1] \in out[k].item}
NothingSkipped ==
  /\ node.type \in {"file_input", "json_input"} /\ pc = "loop" =>
       \A k \in 1..local.size : Content[k] \in Emitted
  /\ node.type = "directory" /\ pc = "loop" => local.seen \subseteq Emitted
  /\ node.type \in Files => Cardinality(Beginnings) <= starts + cuts

\* A trigger tells a target at most once for an item, the targets in their
\* order, and reports an item last, and once: whatever fails or is cut.
ItemTriggers == {"trigger", "trigger_on", "trigger_if", "trigger_toggle", "threshold", "debounce"}
Place(k) == IF out[k].to = <<"out">> THEN Len(Targets) + 1
            ELSE CHOOSE j \in DOMAIN Targets : out[k].to = <<Targets[j]>>
ToldOnceInOrder ==
  node.type \in ItemTriggers =>
    \A j, k \in DOMAIN out :
      j < k /\ out[j].item = out[k].item => Place(j) < Place(k)

\* The rounds of a toggle alternate, unless a round in between was cut, or
\* failed and was followed by another init().
Rounds == {k \in DOMAIN out : out[k].to = <<"out">>}
Repeated ==
  {k \in Rounds : \E j \in Rounds :
     j < k /\ out[j].form = out[k].form /\ \A i \in Rounds : i <= j \/ k <= i}
TogglesAlternate == node.type = "trigger_toggle" => Cardinality(Repeated) <= cuts

\* A threshold that resets fires at every threshold-th item: its loop never
\* waits for items with the threshold reached, unless a round was cut.
ThresholdIsReset ==
  node.type = "threshold" /\ node.opt.resets /\ pc = "loop" /\ cuts = 0 =>
    /\ mem.n < node.opt.threshold
    /\ mem.n = Len(Fresh) % node.opt.threshold

\* A pulse trigger sends pulse_count pulses, and one more for each process
\* that begins after the last.
PulsesBounded ==
  node.type = "pulse" /\ node.opt.count > 0 =>
    Cardinality(Rounds) <= starts * node.opt.count + cuts

\* Of the timers of a debounce all but the current one are leftovers: at most
\* one for each init(), which forgets a timer without cancelling it, and one for
\* each timer that went on after it was cancelled.
OneTimerPerInit ==
  node.type = "debounce" /\ mem # <<>> => Cardinality(Timers) <= starts + mem.deaf
=============================================================================
