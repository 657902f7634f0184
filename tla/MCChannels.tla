----------------------------- MODULE MCChannels -----------------------------
(* Programs over channels for TLC.                                         *)
EXTENDS Channels

CONSTANTS t1, t2, t3, c1, c2, c3, o1, r1

Delay1 == [o \in Timeouts |-> 2]
Result1 == [r \in Results |-> t1]

-----------------------------------------------------------------------------
(* Calls.                                                                  *)
On(n, c) == [NoOp EXCEPT !.op = n, !.ch = c]
Write(c) == On("write", c)
Get(c) == On("get", c)
DelayBy(d) == [NoOp EXCEPT !.op = "delay", !.d = d]
AltOf(n, ports) == [NoOp EXCEPT !.op = n, !.ports = ports, !.bind = TRUE]
WithDefault(o) == [o EXCEPT !.dflt = TRUE]
ReflectTo(c, sinks, clr) == [NoOp EXCEPT !.op = "reflect", !.ch = c, !.ports = sinks, !.bind = clr]

(* Classes.                                                                *)
Klass(kind, multi, size) ==
  [kind |-> kind, multi |-> multi, size |-> size, period |-> 0, skew |-> 0]
Clocked(size, period, skew) ==
  [kind |-> "clock", multi |-> FALSE, size |-> size, period |-> period, skew |-> skew]
Chan == Klass("chan", FALSE, 1)
Program(x1, x2, x3, m1, m2, m3) ==
  [class |-> [c \in Chans |-> CASE c = c1 -> x1 [] c = c2 -> x2 [] c = c3 -> x3],
   menu |-> [t \in Users |-> CASE t = t1 -> m1 [] t = t2 -> m2 [] t = t3 -> m3]]

-----------------------------------------------------------------------------
(* Two producers and a consumer on each one-item and queued class.         *)
Unclocked == {Chan, Klass("queue", FALSE, 0), Klass("queue", FALSE, 1), Klass("queue", FALSE, 2)}
Pipes ==
  {Program(k, Chan, Chan, {Write(c1), DelayBy(1)}, {Write(c1)},
           {Get(c1), On("read", c1), DelayBy(1)}) : k \in Unclocked \cup {Klass("busy", FALSE, 1)}}

(* Items dropped by clear_ready().                                         *)
Trims ==
  {Program(Klass("queue", FALSE, 0), Chan, Chan, {Write(c1)}, {Write(c1)},
           {Get(c1), On("clear_ready", c1)})}

(* Two consumers on a Channel.                                             *)
Consumers ==
  {Program(Klass("chan", TRUE, 1), Chan, Chan, {Write(c1)}, {Get(c1), Write(c1)}, {Get(c1), DelayBy(1)})}

(* alt and prialt over two channels, with and without a default block.     *)
Alts ==
  {Program(k, Chan, Chan, {Write(c1)}, {Write(c2), DelayBy(1)},
           {AltOf("alt", <<c1, c2>>), AltOf("prialt", <<c1, c2>>),
            WithDefault(AltOf("alt", <<c1, c2>>)), Get(c2)}) : k \in {Chan, Klass("queue", FALSE, 2)}}

(* alt over a channel and a Timeout or a spawned thread's result.          *)
TimedAlts ==
  {Program(Chan, Chan, Chan, {Write(c1), DelayBy(2)}, {DelayBy(1), Write(c1)},
           {AltOf("alt", <<c1, o1>>), AltOf("prialt", <<c1, o1>>)})}
ResultAlts ==
  {Program(Chan, Chan, Chan, {Write(c1), DelayBy(1)}, {Write(c1), On("res_read", r1)},
           {AltOf("prialt", <<r1, c1>>), On("res_get", r1), On("res_clear", r1)})}

(* A Broadcaster with two sinks.                                           *)
Broadcasts ==
  {Program(Klass("queue", FALSE, 2), Chan, Chan, {ReflectTo(c1, <<c2, c3>>, clr)},
           {Write(c1), DelayBy(1)}, {Get(c2), Get(c3)}) : clr \in BOOLEAN}

ChannelPrograms == Pipes \cup Trims \cup Consumers \cup Alts \cup TimedAlts \cup ResultAlts \cup Broadcasts

-----------------------------------------------------------------------------
(* Clocked channels: buffered with two producers, interlocked with one,    *)
(* skewed and not, read directly, in an alt block, and cleared.            *)
ClockPipes ==
  {Program(k, Chan, Chan, {Write(c1), DelayBy(1)}, {Write(c1), DelayBy(2)}, {Get(c1), DelayBy(1)}) :
     k \in {Clocked(1, 2, 0), Clocked(2, 3, 1), Clocked(2, 0, 0)}}
Interlocks ==
  {Program(k, Chan, Chan, {Write(c1), DelayBy(1)}, {On("clear", c1), DelayBy(2)},
           {Get(c1), On("read", c1), DelayBy(1)}) : k \in {Clocked(0, 2, 0), Clocked(0, 3, 2)}}
ClockAlts ==
  {Program(Clocked(1, 2, 0), Chan, Chan, {Write(c1), DelayBy(1)}, {Write(c2), On("clear", c1)},
           {AltOf("prialt", <<c2, c1>>)}),
   Program(Clocked(1, 2, 0), Clocked(1, 3, 1), Chan, {Write(c1), DelayBy(1)}, {Write(c2), On("clear", c1)},
           {AltOf("alt", <<c1, c2, o1>>)})}
(* ClkBroadcaster: a clocked source and cleared one-item sinks.            *)
ClockBroadcasts ==
  {Program(Clocked(1, 2, 0), Chan, Chan, {ReflectTo(c1, <<c2, c3>>, TRUE)},
           {Write(c1), DelayBy(1)}, {AltOf("alt", <<c2, c3>>), DelayBy(2)})}
ClockPrograms == ClockPipes \cup Interlocks \cup ClockAlts \cup ClockBroadcasts

AllPrograms == ChannelPrograms \cup ClockPrograms

(* The programs of the passing run keep to the rules of the classes, the   *)
(* hypothesis of the theorems FaultFree, ReadersWait,                      *)
(* ProperChannelsAreFifos and TimeoutsEndAlts, and their Broadcasters have *)
(* their channels to themselves, the further hypothesis of SinksInOrder.   *)
ASSUME RulesKept == OwnResults /\ \A p \in AllPrograms : Proper(p) /\ OwnSinks(p)

-----------------------------------------------------------------------------
(* Programs that show where the code departs from what is said of it.      *)
Preempted == {Program(Chan, Chan, Chan, {Write(c1)}, {Write(c1)}, {Get(c1)})}
PreemptedAlt ==
  {Program(Chan, Chan, Chan, {Write(c1)}, {}, {AltOf("prialt", <<c1, o1>>)})}
QueueConsumers ==
  {Program(Klass("queue", TRUE, 0), Chan, Chan, {Write(c1)}, {Get(c1)}, {Get(c1)})}
BusyConsumers ==
  {Program(Klass("busy", TRUE, 1), Chan, Chan, {Write(c1)}, {Get(c1)}, {Get(c1)})}
BusyAlt == {Program(Klass("busy", FALSE, 1), Chan, Chan, {Write(c1)}, {}, {AltOf("alt", <<c1>>)})}
StaleTimeout ==
  {Program(Chan, Chan, Chan, {DelayBy(2), Write(c1)}, {}, {AltOf("prialt", <<c1, o1>>)})}
LoneTimeout == {Program(Chan, Chan, Chan, {}, {}, {On("to_get", o1), DelayBy(3)})}
QueueClear ==
  {Program(Klass("queue", FALSE, 1), Chan, Chan, {Write(c1)}, {}, {On("clear", c1), DelayBy(1)})}
ClockClear ==
  {Program(Clocked(2, 2, 0), Chan, Chan, {Write(c1)}, {Write(c1)}, {On("clear", c1), DelayBy(1)})}
TwoInterlocked ==
  {Program(Clocked(0, 1, 0), Chan, Chan, {Write(c1)}, {Write(c1)}, {Get(c1), DelayBy(1)})}
ClockConsumers ==
  {Program([Clocked(2, 2, 0) EXCEPT !.multi = TRUE], Chan, Chan, {Write(c1)}, {Get(c1)}, {Get(c1)})}
=============================================================================
