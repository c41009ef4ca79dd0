------------------------- MODULE LidarDriver_proofs -------------------------
(* Machine-checked invariants of the lidar driver and the step simulation   *)
(* that makes it a feed of scans, for every bound of its counters.          *)
EXTENDS LidarDriver, TLAPS

\* A revolution that begins with a zero point is whole and fresh, and only
\* such revolutions are handed over.
Assembled ==
  /\ loc.sync => ~loc.torn /\ ~loc.old
  /\ mail.full => ~mail.torn

Starting == {"created", "motor", "check", "tally"}

\* When a scan thread exists, in terms of the place of the main thread.
Threads ==
  /\ main.pc \in {"init", "command", "exit", "close", "done"} => thr.pc = "none"
  /\ main.pc \in Starting \cup {"grab", "copy"} => thr.pc # "none"
  /\ thr.pc = "born" => main.pc \in {"created", "motor"}
  /\ drv.scanning => thr.pc # "none" /\ main.pc # "join"
  /\ thr.pc = "none" => mail.old

\* A thread that dies on its own does so because it must not reconnect.
Deaths ==
  /\ drv.param => drv.auto \/ main.pc = "done"
  /\ main.pc \in Starting /\ thr.pc \notin {"born", "dead"} => drv.scanning
  /\ main.pc \in Starting /\ thr.pc = "dead" => ~drv.auto
  /\ drv.scanning /\ thr.pc = "dead" => ~drv.auto

\* The loop never waits for, or copies, a scan of an earlier session.
NoLeftOver == main.pc \in InLoop /\ thr.pc # "none" => ~(mail.full /\ mail.old)

\* A driver that is not connected has no open port.
Connected == drv.connected <=> link.fd # "closed"

Ended == main.pc = "done" => ~drv.connected

IInv ==
  /\ TypeOK
  /\ Assembled
  /\ Threads
  /\ Deaths
  /\ NoLeftOver
  /\ Connected
  /\ Ended
  /\ WholeAndFresh

-----------------------------------------------------------------------------
(* One lemma per conjunct of the invariant, with one step per action.      *)

\* The values the steps write are values of their fields.
LEMMA Places ==
  /\ "command" \in Then /\ "serve" \in Then /\ "exit" \in Then /\ "close" \in Then
  /\ "init" \in MainPc /\ "join" \in MainPc /\ "begin" \in MainPc /\ "command" \in MainPc
  /\ "created" \in MainPc /\ "motor" \in MainPc /\ "check" \in MainPc
  /\ "tally" \in MainPc /\ "loop" \in MainPc /\ "grab" \in MainPc /\ "copy" \in MainPc /\ "serve" \in MainPc
  /\ "exit" \in MainPc /\ "close" \in MainPc /\ "done" \in MainPc
  /\ "exit" \in Home /\ "serve" \in Home
  /\ Home \subseteq Then /\ Then \subseteq MainPc
  /\ "none" \in ThrPc /\ "born" \in ThrPc /\ "test" \in ThrPc /\ "wait" \in ThrPc /\ "dead" \in ThrPc
  /\ "retry" \in ThrPc /\ "connect" \in ThrPc /\ "ask" \in ThrPc /\ "restart" \in ThrPc
  /\ "closed" \in Fd /\ "live" \in Fd /\ "dead" \in Fd
BY DEF Home, Then, MainPc, InLoop, InTurnOn, ThrPc, Reconnecting, Fd

\* The counters stay within their bounds.
LEMMA Counters ==
  /\ 0 \in 0..MaxRounds /\ 0 \in 0..MaxGrabs /\ 0 \in 0..(MaxMisses + 1)
  /\ \A r \in 0..MaxRounds : r + 1 < MaxRounds => r + 1 \in 0..MaxRounds
  /\ \A g \in 0..MaxGrabs : g + 1 < MaxGrabs => g + 1 \in 0..MaxGrabs
  /\ \A m \in 0..(MaxMisses + 1) : m <= MaxMisses => m + 1 \in 0..(MaxMisses + 1)
BY BoundsAssumption

\* Every step keeps the type of link.
LEMMA LinkStep == TypeOK /\ [Next]_vars => link' \in Link
<1> SUFFICES ASSUME TypeOK, [Next]_vars PROVE link' \in Link
  OBVIOUS
<1> USE Places DEF TypeOK, Link
<1>1. CASE UNCHANGED <<link>>
  BY <1>1
<1>2. CASE Initialize
  BY <1>2 DEF Initialize
<1>3. CASE Join
  BY <1>3 DEF Join, Goto
<1>4. CASE Command
  BY <1>4 DEF Command, NewThread, StartFailed, Halt
<1>5. CASE Close
  BY <1>5 DEF Close, Goto
<1>6. CASE Retry
  BY <1>6 DEF Retry, Die
<1>7. CASE Connect
  BY <1>7 DEF Connect, Die, GivesUp
<1>8. CASE RestartOk
  BY <1>8 DEF RestartOk, Unsynced
<1>9. CASE RestartFailed
  BY <1>9 DEF RestartFailed
<1>10. CASE Plug
  BY <1>10 DEF Plug
<1>11. CASE Unplug
  BY <1>11 DEF Unplug
<1>12. CASE Begin \/ StartMotor \/ Motor \/ Check \/ Tally \/ CheckHardware \/ Grab \/ Copy \/
            NoRequest \/ StopScanService \/ StartScanService \/ Exit \/ ThreadStart \/
            ThreadTest \/ GotNodes \/ GotZero \/ Missed \/ Silent \/ Ask
  BY <1>1, <1>12 DEF Begin, StartMotor, Goto, Motor, Check, Tally, CheckHardware, Grab, Copy, NoRequest,
        StopScanService, StartScanService, Exit, ThreadStart, ThreadTest, GotNodes,
        GotZero, Missed, Silent, Ask
<1>13. CASE UNCHANGED vars
  BY <1>1, <1>13 DEF vars
<1> QED BY <1>2, <1>3, <1>4, <1>5, <1>6, <1>7, <1>8, <1>9, <1>10, <1>11, <1>12, <1>13
  DEF Next, MainStep, ThreadStep

\* Every step keeps the type of drv.
LEMMA DrvStep == TypeOK /\ [Next]_vars => drv' \in Drv
<1> SUFFICES ASSUME TypeOK, [Next]_vars PROVE drv' \in Drv
  OBVIOUS
<1> USE DEF TypeOK, Drv
<1>1. CASE UNCHANGED <<drv>>
  BY <1>1
<1>2. CASE Initialize
  BY <1>2 DEF Initialize
<1>3. CASE Begin
  BY <1>3 DEF Begin, StartFailed, Halt
<1>4. CASE Command
  BY <1>4 DEF Command, NewThread, StartFailed, Halt
<1>5. CASE StartMotor \/ Motor
  BY <1>5 DEF StartMotor, Goto, Motor
<1>6. CASE Check
  BY <1>6 DEF Check, NextRound, Halt
<1>7. CASE Tally
  BY <1>7 DEF Tally, NextRound, TurnedOn
<1>8. CASE StopScanService
  BY <1>8 DEF StopScanService, Halt
<1>9. CASE Exit
  BY <1>9 DEF Exit, Halt
<1>10. CASE Close
  BY <1>10 DEF Close, Goto
<1>11. CASE ThreadStart
  BY <1>11 DEF ThreadStart
<1>12. CASE ThreadTest
  BY <1>12 DEF ThreadTest, Die
<1>13. CASE Silent
  BY <1>13 DEF Silent, Die
<1>14. CASE Retry
  BY <1>14 DEF Retry, Die
<1>15. CASE Connect
  BY <1>15 DEF Connect, Die, GivesUp
<1>16. CASE Ask
  BY <1>16 DEF Ask, Die
<1>17. CASE Join \/ CheckHardware \/ Grab \/ Copy \/ NoRequest \/ StartScanService \/
            GotNodes \/ GotZero \/ Missed \/ RestartOk \/ RestartFailed \/ Plug \/
            Unplug
  BY <1>1, <1>17 DEF Join, CheckHardware, Grab, Copy, NoRequest, StartScanService, GotNodes,
        GotZero, Missed, RestartOk, RestartFailed, Plug, Unplug
<1>18. CASE UNCHANGED vars
  BY <1>1, <1>18 DEF vars
<1> QED BY <1>2, <1>3, <1>4, <1>5, <1>6, <1>7, <1>8, <1>9, <1>10, <1>11, <1>12, <1>13,
          <1>14, <1>15, <1>16, <1>17, <1>18
  DEF Next, MainStep, ThreadStep

\* Every step keeps the type of mail.
LEMMA MailStep == TypeOK /\ [Next]_vars => mail' \in Mail
<1> SUFFICES ASSUME TypeOK, [Next]_vars PROVE mail' \in Mail
  OBVIOUS
<1> USE DEF TypeOK, Mail, Loc
<1>1. CASE UNCHANGED <<mail>>
  BY <1>1
<1>2. CASE Join
  BY <1>2 DEF Join, Goto
<1>3. CASE Begin
  BY <1>3 DEF Begin, StartFailed, Halt
<1>4. CASE Command
  BY <1>4 DEF Command, NewThread, StartFailed, Halt
<1>5. CASE Check
  BY <1>5 DEF Check, NextRound, Halt
<1>6. CASE Tally
  BY <1>6 DEF Tally, NextRound, TurnedOn
<1>7. CASE Grab
  BY <1>7 DEF Grab, Goto
<1>8. CASE Copy
  BY <1>8 DEF Copy, Goto
<1>9. CASE StopScanService
  BY <1>9 DEF StopScanService, Halt
<1>10. CASE Exit
  BY <1>10 DEF Exit, Halt
<1>11. CASE Close
  BY <1>11 DEF Close, Goto
<1>12. CASE GotZero
  BY <1>12 DEF GotZero, Streaming
<1>13. CASE Initialize \/ StartMotor \/ Motor \/ CheckHardware \/ NoRequest \/ StartScanService \/
            ThreadStart \/ ThreadTest \/ GotNodes \/ Missed \/ Silent \/ Retry \/
            Connect \/ Ask \/ RestartOk \/ RestartFailed \/ Plug \/ Unplug
  BY <1>1, <1>13 DEF Initialize, StartMotor, Goto, Motor, CheckHardware, NoRequest, StartScanService, ThreadStart,
        ThreadTest, GotNodes, Missed, Silent, Retry, Connect, Ask, RestartOk,
        RestartFailed, Plug, Unplug
<1>14. CASE UNCHANGED vars
  BY <1>1, <1>14 DEF vars
<1> QED BY <1>2, <1>3, <1>4, <1>5, <1>6, <1>7, <1>8, <1>9, <1>10, <1>11, <1>12, <1>13,
          <1>14
  DEF Next, MainStep, ThreadStep

\* Every step keeps the type of main.
LEMMA MainVarStep == TypeOK /\ [Next]_vars => main' \in Main
<1> SUFFICES ASSUME TypeOK, [Next]_vars PROVE main' \in Main
  OBVIOUS
<1> USE Counters, Places DEF TypeOK, Main
<1>1. CASE UNCHANGED <<main>>
  BY <1>1
<1>2. CASE Initialize
  BY <1>2 DEF Initialize
<1>3. CASE Join
  BY <1>3 DEF Join, Goto
<1>4. CASE Begin
  BY <1>4 DEF Begin, StartFailed, Halt
<1>5. CASE Command
  BY <1>5 DEF Command, NewThread, StartFailed, Halt
<1>6. CASE StartMotor \/ Motor
  BY <1>6 DEF StartMotor, Goto, Motor
<1>7. CASE Check
  BY <1>7 DEF Check, NextRound, Halt
<1>8. CASE Tally
  BY <1>8 DEF Tally, NextRound, TurnedOn
<1>9. CASE CheckHardware
  BY <1>9 DEF CheckHardware, Goto
<1>10. CASE Grab
  BY <1>10 DEF Grab, Goto
<1>11. CASE Copy
  BY <1>11 DEF Copy, Goto
<1>12. CASE NoRequest
  BY <1>12 DEF NoRequest, Goto
<1>13. CASE StopScanService
  BY <1>13 DEF StopScanService, Halt
<1>14. CASE StartScanService
  BY <1>14 DEF StartScanService
<1>15. CASE Exit
  BY <1>15 DEF Exit, Halt
<1>16. CASE Close
  BY <1>16 DEF Close, Goto
<1>17. CASE ThreadStart \/ ThreadTest \/ GotNodes \/ GotZero \/ Missed \/ Silent \/
            Retry \/ Connect \/ Ask \/ RestartOk \/ RestartFailed \/ Plug \/ Unplug
  BY <1>1, <1>17 DEF ThreadStart, ThreadTest, GotNodes, GotZero, Missed, Silent, Retry, Connect,
        Ask, RestartOk, RestartFailed, Plug, Unplug
<1>18. CASE UNCHANGED vars
  BY <1>1, <1>18 DEF vars
<1> QED BY <1>2, <1>3, <1>4, <1>5, <1>6, <1>7, <1>8, <1>9, <1>10, <1>11, <1>12, <1>13,
          <1>14, <1>15, <1>16, <1>17, <1>18
  DEF Next, MainStep, ThreadStep

\* Every step keeps the type of thr.
LEMMA ThrStep == TypeOK /\ [Next]_vars => thr' \in Thr
<1> SUFFICES ASSUME TypeOK, [Next]_vars PROVE thr' \in Thr
  OBVIOUS
<1> USE Counters, Places DEF TypeOK, Thr
<1>1. CASE UNCHANGED <<thr>>
  BY <1>1
<1>2. CASE Join
  BY <1>2 DEF Join, Goto
<1>3. CASE Command
  BY <1>3 DEF Command, NewThread, StartFailed, Halt
<1>4. CASE ThreadStart
  BY <1>4 DEF ThreadStart
<1>5. CASE ThreadTest
  BY <1>5 DEF ThreadTest, Die
<1>6. CASE GotNodes
  BY <1>6 DEF GotNodes, Streaming
<1>7. CASE GotZero
  BY <1>7 DEF GotZero, Streaming
<1>8. CASE Missed
  BY <1>8 DEF Missed, Unsynced
<1>9. CASE Silent
  BY <1>9 DEF Silent, Die
<1>10. CASE Retry
  BY <1>10 DEF Retry, Die
<1>11. CASE Connect
  BY <1>11 DEF Connect, Die, GivesUp
<1>12. CASE Ask
  BY <1>12 DEF Ask, Die
<1>13. CASE RestartOk
  BY <1>13 DEF RestartOk, Unsynced
<1>14. CASE RestartFailed
  BY <1>14 DEF RestartFailed
<1>15. CASE Initialize \/ Begin \/ StartMotor \/ Motor \/ Check \/ Tally \/ CheckHardware \/ Grab \/
            Copy \/ NoRequest \/ StopScanService \/ StartScanService \/ Exit \/
            Close \/ Plug \/ Unplug
  BY <1>1, <1>15 DEF Initialize, Begin, StartMotor, Goto, Motor, Check, Tally, CheckHardware, Grab, Copy, NoRequest,
        StopScanService, StartScanService, Exit, Close, Plug, Unplug
<1>16. CASE UNCHANGED vars
  BY <1>1, <1>16 DEF vars
<1> QED BY <1>2, <1>3, <1>4, <1>5, <1>6, <1>7, <1>8, <1>9, <1>10, <1>11, <1>12, <1>13,
          <1>14, <1>15, <1>16
  DEF Next, MainStep, ThreadStep

\* Every step keeps the type of loc.
LEMMA LocStep == TypeOK /\ [Next]_vars => loc' \in Loc
<1> SUFFICES ASSUME TypeOK, [Next]_vars PROVE loc' \in Loc
  OBVIOUS
<1> USE DEF TypeOK, Loc
<1>1. CASE UNCHANGED <<loc>>
  BY <1>1
<1>2. CASE Command
  <2>1. CASE NewThread /\ main' = [main EXCEPT !.pc = "created"] /\ UNCHANGED <<drv, mail>>
    BY <1>2, <2>1 DEF Command, NewThread
  <2>2. CASE StartFailed /\ UNCHANGED <<thr, loc>>
    <3>1. CASE main.tries = 1
      BY <1>2, <2>2, <3>1 DEF Command, StartFailed, Halt
    <3>2. CASE main.tries = 2
      BY <1>2, <2>2, <3>2 DEF Command, StartFailed, Halt
    <3> QED BY <2>2, <3>1, <3>2 DEF StartFailed
  <2> QED BY <1>2, <2>1, <2>2 DEF Command
<1>3. CASE GotZero
  BY <1>3 DEF GotZero, Streaming
<1>4. CASE Missed
  BY <1>4 DEF Missed, Unsynced
<1>5. CASE RestartOk
  BY <1>5 DEF RestartOk, Unsynced
<1>6. CASE Initialize \/ Join \/ Begin \/ StartMotor \/ Motor \/ Check \/ Tally \/ CheckHardware \/
            Grab \/ Copy \/ NoRequest \/ StopScanService \/ StartScanService \/ Exit \/
            Close \/ ThreadStart \/ ThreadTest \/ GotNodes \/ Silent \/ Retry \/
            Connect \/ Ask \/ RestartFailed \/ Plug \/ Unplug
  BY <1>1, <1>6 DEF Initialize, Join, Begin, StartMotor, Goto, Motor, Check, Tally, CheckHardware, Grab, Copy,
        NoRequest, StopScanService, StartScanService, Exit, Close, ThreadStart,
        ThreadTest, GotNodes, Silent, Retry, Connect, Ask, RestartFailed, Plug, Unplug
<1>7. CASE UNCHANGED vars
  BY <1>1, <1>7 DEF vars
<1> QED BY <1>2, <1>3, <1>4, <1>5, <1>6, <1>7
  DEF Next, MainStep, ThreadStep

\* Every step keeps the type of pub.
LEMMA PubStep == TypeOK /\ [Next]_vars => pub' \in Pub
<1> SUFFICES ASSUME TypeOK, [Next]_vars PROVE pub' \in Pub
  OBVIOUS
<1> USE DEF TypeOK, Pub, Mail
<1>1. CASE UNCHANGED <<pub>>
  BY <1>1
<1>2. CASE Copy
  BY <1>2 DEF Copy, Goto
<1>3. CASE Initialize \/ Join \/ Begin \/ Command \/ StartMotor \/ Motor \/ Check \/ Tally \/
            CheckHardware \/ Grab \/ NoRequest \/ StopScanService \/
            StartScanService \/ Exit \/ Close \/ ThreadStart \/ ThreadTest \/
            GotNodes \/ GotZero \/ Missed \/ Silent \/ Retry \/ Connect \/ Ask \/
            RestartOk \/ RestartFailed \/ Plug \/ Unplug
  BY <1>1, <1>3 DEF Initialize, Join, Begin, Command, StartMotor, Goto, Motor, Check, Tally, CheckHardware, Grab,
        NoRequest, StopScanService, StartScanService, Exit, Close, ThreadStart,
        ThreadTest, GotNodes, GotZero, Missed, Silent, Retry, Connect, Ask, RestartOk,
        RestartFailed, Plug, Unplug
<1>4. CASE UNCHANGED vars
  BY <1>1, <1>4 DEF vars
<1> QED BY <1>2, <1>3, <1>4
  DEF Next, MainStep, ThreadStep

\* Every step keeps the assembled revolutions whole.
LEMMA AssembledStep == TypeOK /\ Assembled /\ [Next]_vars => Assembled'
<1> SUFFICES ASSUME TypeOK /\ Assembled, [Next]_vars PROVE Assembled'
  OBVIOUS
<1> USE DEF TypeOK, Mail, Loc, Assembled
<1>1. CASE UNCHANGED <<mail, loc>>
  BY <1>1
<1>2. CASE Join
  BY <1>2 DEF Join, Goto
<1>3. CASE Begin
  BY <1>3 DEF Begin, StartFailed, Halt
<1>4. CASE Command
  BY <1>4 DEF Command, NewThread, StartFailed, Halt
<1>5. CASE Check
  BY <1>5 DEF Check, NextRound, Halt
<1>6. CASE Tally
  BY <1>6 DEF Tally, NextRound, TurnedOn
<1>7. CASE Grab
  BY <1>7 DEF Grab, Goto
<1>8. CASE Copy
  BY <1>8 DEF Copy, Goto
<1>9. CASE StopScanService
  BY <1>9 DEF StopScanService, Halt
<1>10. CASE Exit
  BY <1>10 DEF Exit, Halt
<1>11. CASE Close
  BY <1>11 DEF Close, Goto
<1>12. CASE GotZero
  BY <1>12 DEF GotZero, Streaming
<1>13. CASE Missed
  BY <1>13 DEF Missed, Unsynced
<1>14. CASE RestartOk
  BY <1>14 DEF RestartOk, Unsynced
<1>15. CASE Initialize \/ StartMotor \/ Motor \/ CheckHardware \/ NoRequest \/ StartScanService \/
            ThreadStart \/ ThreadTest \/ GotNodes \/ Silent \/ Retry \/ Connect \/
            Ask \/ RestartFailed \/ Plug \/ Unplug
  BY <1>1, <1>15 DEF Initialize, StartMotor, Goto, Motor, CheckHardware, NoRequest, StartScanService, ThreadStart,
        ThreadTest, GotNodes, Silent, Retry, Connect, Ask, RestartFailed, Plug, Unplug
<1>16. CASE UNCHANGED vars
  BY <1>1, <1>16 DEF vars
<1> QED BY <1>2, <1>3, <1>4, <1>5, <1>6, <1>7, <1>8, <1>9, <1>10, <1>11, <1>12, <1>13,
          <1>14, <1>15, <1>16
  DEF Next, MainStep, ThreadStep

\* Every step keeps the two threads in their places.
LEMMA ThreadsStep == TypeOK /\ Threads /\ [Next]_vars => Threads'
<1> SUFFICES ASSUME TypeOK /\ Threads, [Next]_vars PROVE Threads'
  OBVIOUS
<1> USE DEF TypeOK, Drv, Mail, Main, Thr, Threads, Starting, Home, Then
<1>1. CASE UNCHANGED <<drv, mail, main, thr>>
  BY <1>1
<1>2. CASE Initialize
  BY <1>2 DEF Initialize
<1>3. CASE Join
  BY <1>3 DEF Join, Goto
<1>4. CASE Begin
  <2>1. CASE drv.connected /\ Halt("command")
    BY <1>4, <2>1 DEF Begin, Halt
  <2>2. CASE ~drv.connected /\ StartFailed
    <3>1. CASE main.tries = 1
      BY <1>4, <2>2, <3>1 DEF Begin, StartFailed, Halt
    <3>2. CASE main.tries = 2
      BY <1>4, <2>2, <3>2 DEF Begin, StartFailed, Halt
    <3> QED BY <2>2, <3>1, <3>2 DEF StartFailed
  <2> QED BY <1>4, <2>1, <2>2 DEF Begin
<1>5. CASE Command
  <2>1. CASE NewThread /\ main' = [main EXCEPT !.pc = "created"] /\ UNCHANGED <<drv, mail>>
    BY <1>5, <2>1 DEF Command, NewThread
  <2>2. CASE StartFailed /\ UNCHANGED <<thr, loc>>
    <3>1. CASE main.tries = 1
      <4>1. main.pc = "command" /\ thr' = thr
        BY <1>5, <2>2 DEF Command
      <4>2. main' = [main EXCEPT !.pc = "begin", !.tries = 2] /\ drv' = drv /\ mail' = mail
        <5> HIDE DEF TypeOK, Drv, Mail, Main, Thr, Threads, Starting, Home, Then
        <5> QED BY <2>2, <3>1 DEF StartFailed
      <4>3. main'.pc = "begin"
        BY <4>2
      <4> QED BY <4>1, <4>2, <4>3
    <3>2. CASE main.tries = 2
      <4>1. main.pc = "command" /\ thr' = thr
        BY <1>5, <2>2 DEF Command
      <4>2. Halt(main.home)
        <5> HIDE DEF TypeOK, Drv, Mail, Main, Thr, Threads, Starting, Home, Then
        <5> QED BY <2>2, <3>2 DEF StartFailed
      <4>3. main'.pc = "join" /\ drv'.scanning = FALSE /\ mail'.old = mail.old
        BY <4>2 DEF Halt
      <4> QED BY <4>1, <4>3
    <3> QED BY <2>2, <3>1, <3>2 DEF StartFailed
  <2> QED BY <1>5, <2>1, <2>2 DEF Command
<1>6. CASE StartMotor \/ Motor
  BY <1>6 DEF StartMotor, Goto, Motor
<1>7. CASE Check
  BY <1>7 DEF Check, NextRound, Halt
<1>8. CASE Tally
  BY <1>8 DEF Tally, NextRound, TurnedOn
<1>9. CASE CheckHardware
  BY <1>9 DEF CheckHardware, Goto
<1>10. CASE Grab
  BY <1>10 DEF Grab, Goto
<1>11. CASE Copy
  BY <1>11 DEF Copy, Goto
<1>12. CASE NoRequest
  BY <1>12 DEF NoRequest, Goto
<1>13. CASE StopScanService
  BY <1>13 DEF StopScanService, Halt
<1>14. CASE StartScanService
  BY <1>14 DEF StartScanService
<1>15. CASE Exit
  BY <1>15 DEF Exit, Halt
<1>16. CASE Close
  BY <1>16 DEF Close, Goto
<1>17. CASE ThreadStart
  BY <1>17 DEF ThreadStart
<1>18. CASE ThreadTest
  BY <1>18 DEF ThreadTest, Die
<1>19. CASE GotNodes
  BY <1>19 DEF GotNodes, Streaming
<1>20. CASE GotZero
  BY <1>20 DEF GotZero, Streaming
<1>21. CASE Missed
  BY <1>21 DEF Missed, Unsynced
<1>22. CASE Silent
  BY <1>22 DEF Silent, Die
<1>23. CASE Retry
  BY <1>23 DEF Retry, Die
<1>24. CASE Connect
  BY <1>24 DEF Connect, Die, GivesUp
<1>25. CASE Ask
  BY <1>25 DEF Ask, Die
<1>26. CASE RestartOk
  BY <1>26 DEF RestartOk, Unsynced
<1>27. CASE RestartFailed
  BY <1>27 DEF RestartFailed
<1>28. CASE Plug \/ Unplug
  BY <1>1, <1>28 DEF Plug, Unplug
<1>29. CASE UNCHANGED vars
  BY <1>1, <1>29 DEF vars
<1> QED BY <1>2, <1>3, <1>4, <1>5, <1>6, <1>7, <1>8, <1>9, <1>10, <1>11, <1>12, <1>13,
          <1>14, <1>15, <1>16, <1>17, <1>18, <1>19, <1>20, <1>21, <1>22, <1>23, <1>24,
          <1>25, <1>26, <1>27, <1>28, <1>29
  DEF Next, MainStep, ThreadStep

\* Every step keeps what is known of a thread that died.
LEMMA DeathsStep == TypeOK /\ Threads /\ Deaths /\ [Next]_vars => Deaths'
<1> SUFFICES ASSUME TypeOK /\ Threads /\ Deaths, [Next]_vars PROVE Deaths'
  OBVIOUS
<1> USE DEF TypeOK, Drv, Main, Thr, Threads, Deaths, Starting, Home, Then
<1>1. CASE UNCHANGED <<drv, main, thr>>
  BY <1>1
<1>2. CASE Initialize
  BY <1>2 DEF Initialize
<1>3. CASE Join
  BY <1>3 DEF Join, Goto
<1>4. CASE Begin
  BY <1>4 DEF Begin, StartFailed, Halt
<1>5. CASE Command
  <2>1. CASE NewThread /\ main' = [main EXCEPT !.pc = "created"] /\ UNCHANGED <<drv, mail>>
    BY <1>5, <2>1 DEF Command, NewThread
  <2>2. CASE StartFailed /\ UNCHANGED <<thr, loc>>
    <3>1. CASE main.tries = 1
      BY <1>5, <2>2, <3>1 DEF Command, StartFailed, Halt
    <3>2. CASE main.tries = 2
      BY <1>5, <2>2, <3>2 DEF Command, StartFailed, Halt
    <3> QED BY <2>2, <3>1, <3>2 DEF StartFailed
  <2> QED BY <1>5, <2>1, <2>2 DEF Command
<1>6. CASE StartMotor \/ Motor
  BY <1>6 DEF StartMotor, Goto, Motor
<1>7. CASE Check
  BY <1>7 DEF Check, NextRound, Halt
<1>8. CASE Tally
  BY <1>8 DEF Tally, NextRound, TurnedOn
<1>9. CASE CheckHardware
  BY <1>9 DEF CheckHardware, Goto
<1>10. CASE Grab
  BY <1>10 DEF Grab, Goto
<1>11. CASE Copy
  BY <1>11 DEF Copy, Goto
<1>12. CASE NoRequest
  BY <1>12 DEF NoRequest, Goto
<1>13. CASE StopScanService
  BY <1>13 DEF StopScanService, Halt
<1>14. CASE StartScanService
  BY <1>14 DEF StartScanService
<1>15. CASE Exit
  BY <1>15 DEF Exit, Halt
<1>16. CASE Close
  BY <1>16 DEF Close, Goto
<1>17. CASE ThreadStart
  BY <1>17 DEF ThreadStart
<1>18. CASE ThreadTest
  BY <1>18 DEF ThreadTest, Die
<1>19. CASE GotNodes
  BY <1>19 DEF GotNodes, Streaming
<1>20. CASE GotZero
  BY <1>20 DEF GotZero, Streaming
<1>21. CASE Missed
  BY <1>21 DEF Missed, Unsynced
<1>22. CASE Silent
  BY <1>22 DEF Silent, Die
<1>23. CASE Retry
  BY <1>23 DEF Retry, Die
<1>24. CASE Connect
  BY <1>24 DEF Connect, Die, GivesUp
<1>25. CASE Ask
  BY <1>25 DEF Ask, Die
<1>26. CASE RestartOk
  BY <1>26 DEF RestartOk, Unsynced
<1>27. CASE RestartFailed
  BY <1>27 DEF RestartFailed
<1>28. CASE Plug \/ Unplug
  BY <1>1, <1>28 DEF Plug, Unplug
<1>29. CASE UNCHANGED vars
  BY <1>1, <1>29 DEF vars
<1> QED BY <1>2, <1>3, <1>4, <1>5, <1>6, <1>7, <1>8, <1>9, <1>10, <1>11, <1>12, <1>13,
          <1>14, <1>15, <1>16, <1>17, <1>18, <1>19, <1>20, <1>21, <1>22, <1>23, <1>24,
          <1>25, <1>26, <1>27, <1>28, <1>29
  DEF Next, MainStep, ThreadStep

\* Every step keeps scans of an earlier session away from the loop.
LEMMA LeftOverStep == TypeOK /\ Assembled /\ Threads /\ NoLeftOver /\ [Next]_vars => NoLeftOver'
<1> SUFFICES ASSUME TypeOK /\ Assembled /\ Threads /\ NoLeftOver, [Next]_vars PROVE NoLeftOver'
  OBVIOUS
<1> USE DEF TypeOK, Drv, Mail, Main, Thr, Loc, Assembled, Threads, Starting, NoLeftOver,
    InLoop, Home, Then
<1>1. CASE UNCHANGED <<mail, main, thr>>
  BY <1>1
<1>2. CASE Initialize
  BY <1>2 DEF Initialize
<1>3. CASE Join
  BY <1>3 DEF Join, Goto
<1>4. CASE Begin
  BY <1>4 DEF Begin, StartFailed, Halt
<1>5. CASE Command
  BY <1>5 DEF Command, NewThread, StartFailed, Halt
<1>6. CASE StartMotor \/ Motor
  <2>1. CASE StartMotor
    BY <2>1 DEF StartMotor, Goto
  <2>2. CASE Motor
    BY <2>2 DEF Motor
  <2> QED BY <1>6, <2>1, <2>2
<1>7. CASE Check
  BY <1>7 DEF Check, NextRound, Halt
<1>8. CASE Tally
  BY <1>8 DEF Tally, NextRound, TurnedOn
<1>9. CASE CheckHardware
  BY <1>9 DEF CheckHardware, Goto
<1>10. CASE Grab
  BY <1>10 DEF Grab, Goto
<1>11. CASE Copy
  BY <1>11 DEF Copy, Goto
<1>12. CASE NoRequest
  BY <1>12 DEF NoRequest, Goto
<1>13. CASE StopScanService
  BY <1>13 DEF StopScanService, Halt
<1>14. CASE StartScanService
  BY <1>14 DEF StartScanService
<1>15. CASE Exit
  BY <1>15 DEF Exit, Halt
<1>16. CASE Close
  BY <1>16 DEF Close, Goto
<1>17. CASE ThreadStart
  BY <1>17 DEF ThreadStart
<1>18. CASE ThreadTest
  BY <1>18 DEF ThreadTest, Die
<1>19. CASE GotNodes
  BY <1>19 DEF GotNodes, Streaming
<1>20. CASE GotZero
  BY <1>20 DEF GotZero, Streaming
<1>21. CASE Missed
  BY <1>21 DEF Missed, Unsynced
<1>22. CASE Silent
  BY <1>22 DEF Silent, Die
<1>23. CASE Retry
  BY <1>23 DEF Retry, Die
<1>24. CASE Connect
  BY <1>24 DEF Connect, Die, GivesUp
<1>25. CASE Ask
  BY <1>25 DEF Ask, Die
<1>26. CASE RestartOk
  BY <1>26 DEF RestartOk, Unsynced
<1>27. CASE RestartFailed
  BY <1>27 DEF RestartFailed
<1>28. CASE Plug \/ Unplug
  BY <1>1, <1>28 DEF Plug, Unplug
<1>29. CASE UNCHANGED vars
  BY <1>1, <1>29 DEF vars
<1> QED BY <1>2, <1>3, <1>4, <1>5, <1>6, <1>7, <1>8, <1>9, <1>10, <1>11, <1>12, <1>13,
          <1>14, <1>15, <1>16, <1>17, <1>18, <1>19, <1>20, <1>21, <1>22, <1>23, <1>24,
          <1>25, <1>26, <1>27, <1>28, <1>29
  DEF Next, MainStep, ThreadStep

\* Every step keeps the port open exactly while the driver is connected.
LEMMA ConnectedStep == TypeOK /\ Threads /\ Connected /\ Ended /\ [Next]_vars => (Connected /\ Ended)'
<1> SUFFICES ASSUME TypeOK /\ Threads /\ Connected /\ Ended, [Next]_vars PROVE (Connected /\ Ended)'
  OBVIOUS
<1> USE DEF TypeOK, Link, Drv, Main, Thr, Threads, Connected, Ended, Home, Then
<1>1. CASE UNCHANGED <<link, drv, main>>
  BY <1>1
<1>2. CASE Initialize
  BY <1>2 DEF Initialize
<1>3. CASE Join
  BY <1>3 DEF Join, Goto
<1>4. CASE Begin
  BY <1>4 DEF Begin, StartFailed, Halt
<1>5. CASE Command
  BY <1>5 DEF Command, NewThread, StartFailed, Halt
<1>6. CASE StartMotor \/ Motor
  BY <1>6 DEF StartMotor, Goto, Motor
<1>7. CASE Check
  BY <1>7 DEF Check, NextRound, Halt
<1>8. CASE Tally
  BY <1>8 DEF Tally, NextRound, TurnedOn
<1>9. CASE CheckHardware
  BY <1>9 DEF CheckHardware, Goto
<1>10. CASE Grab
  BY <1>10 DEF Grab, Goto
<1>11. CASE Copy
  BY <1>11 DEF Copy, Goto
<1>12. CASE NoRequest
  BY <1>12 DEF NoRequest, Goto
<1>13. CASE StopScanService
  BY <1>13 DEF StopScanService, Halt
<1>14. CASE StartScanService
  BY <1>14 DEF StartScanService
<1>15. CASE Exit
  BY <1>15 DEF Exit, Halt
<1>16. CASE Close
  BY <1>16 DEF Close, Goto
<1>17. CASE ThreadStart
  BY <1>17 DEF ThreadStart
<1>18. CASE ThreadTest
  BY <1>18 DEF ThreadTest, Die
<1>19. CASE Silent
  BY <1>19 DEF Silent, Die
<1>20. CASE Retry
  BY <1>20 DEF Retry, Die
<1>21. CASE Connect
  BY <1>21 DEF Connect, Die, GivesUp
<1>22. CASE Ask
  BY <1>22 DEF Ask, Die
<1>23. CASE RestartOk
  BY <1>23 DEF RestartOk, Unsynced
<1>24. CASE RestartFailed
  BY <1>24 DEF RestartFailed
<1>25. CASE Plug
  BY <1>25 DEF Plug
<1>26. CASE Unplug
  BY <1>26 DEF Unplug
<1>27. CASE GotNodes \/ GotZero \/ Missed
  BY <1>1, <1>27 DEF GotNodes, GotZero, Missed
<1>28. CASE UNCHANGED vars
  BY <1>1, <1>28 DEF vars
<1> QED BY <1>2, <1>3, <1>4, <1>5, <1>6, <1>7, <1>8, <1>9, <1>10, <1>11, <1>12, <1>13,
          <1>14, <1>15, <1>16, <1>17, <1>18, <1>19, <1>20, <1>21, <1>22, <1>23, <1>24,
          <1>25, <1>26, <1>27, <1>28
  DEF Next, MainStep, ThreadStep

\* Every step publishes a whole and fresh scan or none.
LEMMA PublishedStep == TypeOK /\ Assembled /\ Threads /\ NoLeftOver /\ WholeAndFresh /\ [Next]_vars => WholeAndFresh'
<1> SUFFICES ASSUME TypeOK /\ Assembled /\ Threads /\ NoLeftOver /\ WholeAndFresh, [Next]_vars PROVE WholeAndFresh'
  OBVIOUS
<1> USE DEF TypeOK, Mail, Pub, Assembled, Threads, Starting, NoLeftOver, InLoop, WholeAndFresh
<1>1. CASE UNCHANGED <<pub>>
  BY <1>1
<1>2. CASE Copy
  BY <1>2 DEF Copy, Goto
<1>3. CASE Initialize \/ Join \/ Begin \/ Command \/ StartMotor \/ Motor \/ Check \/ Tally \/
            CheckHardware \/ Grab \/ NoRequest \/ StopScanService \/
            StartScanService \/ Exit \/ Close \/ ThreadStart \/ ThreadTest \/
            GotNodes \/ GotZero \/ Missed \/ Silent \/ Retry \/ Connect \/ Ask \/
            RestartOk \/ RestartFailed \/ Plug \/ Unplug
  BY <1>1, <1>3 DEF Initialize, Join, Begin, Command, StartMotor, Goto, Motor, Check, Tally, CheckHardware, Grab,
        NoRequest, StopScanService, StartScanService, Exit, Close, ThreadStart,
        ThreadTest, GotNodes, GotZero, Missed, Silent, Retry, Connect, Ask, RestartOk,
        RestartFailed, Plug, Unplug
<1>4. CASE UNCHANGED vars
  BY <1>1, <1>4 DEF vars
<1> QED BY <1>2, <1>3, <1>4
  DEF Next, MainStep, ThreadStep

(* The invariant and what follows from it.                                 *)

\* A robot that was just switched on satisfies the invariant.
LEMMA InitInv == Init => IInv
<1> SUFFICES ASSUME Init PROVE IInv
  OBVIOUS
<1>1. /\ link \in Link /\ link.fd = "closed"
      /\ drv \in Drv /\ ~drv.connected /\ ~drv.scanning /\ drv.auto
  BY Places DEF Init, Link, Drv
<1>2. /\ mail \in Mail /\ ~mail.full /\ mail.old
      /\ loc \in Loc /\ ~loc.sync
      /\ pub \in Pub /\ ~pub.torn /\ ~pub.old
  BY DEF Init, Mail, Loc, Pub
<1>3. main \in Main /\ main.pc = "init" /\ thr \in Thr /\ thr.pc = "none"
  BY Counters, Places DEF Init, Main, Thr
<1> QED BY <1>1, <1>2, <1>3 DEF IInv, TypeOK, Assembled, Threads, Starting, Deaths, NoLeftOver, InLoop,
  Connected, Ended, WholeAndFresh

\* The invariant holds in every reachable state.
THEOREM LidarInvariant == Spec => []IInv
<1>1. IInv /\ [Next]_vars => IInv'
  BY LinkStep, DrvStep, MailStep, MainVarStep, ThrStep, LocStep, PubStep, AssembledStep, ThreadsStep,
     DeathsStep, LeftOverStep, ConnectedStep, PublishedStep
     DEF IInv, TypeOK
<1> QED BY <1>1, InitInv, PTL DEF Spec

\* Every reachable state of the two threads, the port and the buffer is well typed.
THEOREM LidarTypeCorrect == Spec => []TypeOK
<1>1. IInv => TypeOK
  BY DEF IInv
<1> QED BY <1>1, LidarInvariant, PTL

\* The serial port is opened, commanded and closed by one thread at a time, for
\* any timing of the two: no thread lives when the main thread does it, and under
\* startMotor's lock none of the steps of a live one changes the port.
THEOREM PortTheorem == Spec => PortExclusive
<1>1. IInv /\ [Next]_vars =>
        [/\ main.pc \in {"init", "command", "close"} => thr.pc = "none"
         /\ main.pc = "motor" /\ ThreadStep => link' = link]_vars
  <2> SUFFICES ASSUME IInv
               PROVE  /\ main.pc \in {"init", "command", "close"} => thr.pc = "none"
                      /\ main.pc = "motor" /\ ThreadStep => link' = link
    OBVIOUS
  <2>1. main.pc \in {"init", "command", "close"} => thr.pc = "none"
    BY DEF IInv, Threads
  <2>2. ASSUME main.pc = "motor", ThreadStep PROVE link' = link
    <3>1. ~CmdLockFree
      BY <2>2 DEF CmdLockFree
    <3>2. CASE Retry \/ Connect \/ RestartOk \/ RestartFailed
      BY <3>1, <3>2 DEF Retry, Connect, RestartOk, RestartFailed
    <3>3. CASE ThreadStart \/ ThreadTest \/ GotNodes \/ GotZero \/ Missed \/ Silent \/ Ask
      BY <3>3 DEF ThreadStart, ThreadTest, GotNodes, GotZero, Missed, Silent, Ask
    <3> QED BY <2>2, <3>2, <3>3 DEF ThreadStep
  <2> QED BY <2>1, <2>2
<1> QED BY <1>1, LidarInvariant, PTL DEF Spec, PortExclusive

\* No scan with a silence in it or with points of an earlier session is published.
THEOREM WholeTheorem == Spec => []WholeAndFresh
<1>1. IInv => WholeAndFresh
  BY DEF IInv
<1> QED BY <1>1, LidarInvariant, PTL

\* With auto_reconnect on, a driver that says it is scanning has a live thread.
THEOREM ServedTheorem == Spec => []ScanningIsServed
<1>1. IInv => ScanningIsServed
  BY DEF IInv, Threads, Deaths, ScanningIsServed
<1> QED BY <1>1, LidarInvariant, PTL

\* A node that has ended leaves neither a thread nor an open port.
THEOREM EndTheorem == Spec => []CleanEnd
<1>1. IInv => CleanEnd
  BY DEF IInv, TypeOK, Drv, Threads, Connected, Ended, CleanEnd
<1> QED BY <1>1, LidarInvariant, PTL

-----------------------------------------------------------------------------
(* The driver is a feed of scans.                                          *)

\* What a step does to the three variables of the feed.
FeedStep == Feed!Next \/ UNCHANGED Feed!vars

\* Every step of the driver is a step of the feed or leaves the feed alone.
LEMMA StepIsFeedStep == IInv /\ [Next]_vars => FeedStep
<1> SUFFICES ASSUME IInv, [Next]_vars PROVE FeedStep
  OBVIOUS
<1> USE DEF IInv, TypeOK, Mail, Main, Thr, Pub, Assembled, Threads, Starting, FeedStep, Feed!Next, Feed!vars
<1>1. CASE UNCHANGED <<mail, thr, pub>>
  BY <1>1
<1>2. CASE Join
  BY <1>2 DEF Join, Goto, Feed!Stop
<1>3. CASE Begin
  BY <1>3 DEF Begin, StartFailed, Halt
<1>4. CASE Command
  BY <1>4 DEF Command, NewThread, StartFailed, Halt, Feed!Start
<1>5. CASE Check
  BY <1>5 DEF Check, NextRound, Halt
<1>6. CASE Tally
  BY <1>6 DEF Tally, NextRound, TurnedOn, Feed!Discard
<1>7. CASE Grab
  BY <1>7 DEF Grab, Goto
<1>8. CASE Copy
  BY <1>8 DEF Copy, Goto, Feed!Show, NoLeftOver, InLoop
<1>9. CASE StopScanService
  BY <1>9 DEF StopScanService, Halt
<1>10. CASE Exit
  BY <1>10 DEF Exit, Halt
<1>11. CASE Close
  BY <1>11 DEF Close, Goto
<1>12. CASE ThreadStart
  BY <1>12 DEF ThreadStart
<1>13. CASE ThreadTest
  BY <1>13 DEF ThreadTest, Die
<1>14. CASE GotNodes
  BY <1>14 DEF GotNodes, Streaming
<1>15. CASE GotZero
  BY <1>15 DEF GotZero, Streaming, Feed!Measure, Loc
<1>16. CASE Missed
  BY <1>16 DEF Missed, Unsynced
<1>17. CASE Silent
  BY <1>17 DEF Silent, Die
<1>18. CASE Retry
  BY <1>18 DEF Retry, Die
<1>19. CASE Connect
  BY <1>19 DEF Connect, Die, GivesUp
<1>20. CASE Ask
  BY <1>20 DEF Ask, Die
<1>21. CASE RestartOk
  BY <1>21 DEF RestartOk, Unsynced
<1>22. CASE RestartFailed
  BY <1>22 DEF RestartFailed
<1>23. CASE Initialize \/ StartMotor \/ Motor \/ CheckHardware \/ NoRequest \/ StartScanService \/
            Plug \/ Unplug
  BY <1>1, <1>23 DEF Initialize, StartMotor, Goto, Motor, CheckHardware, NoRequest, StartScanService, Plug, Unplug
<1>24. CASE UNCHANGED vars
  BY <1>1, <1>24 DEF vars
<1> QED BY <1>2, <1>3, <1>4, <1>5, <1>6, <1>7, <1>8, <1>9, <1>10, <1>11, <1>12, <1>13,
          <1>14, <1>15, <1>16, <1>17, <1>18, <1>19, <1>20, <1>21, <1>22, <1>23, <1>24
  DEF Next, MainStep, ThreadStep


\* The driver implements the feed: a scan is shown at most once, only when it
\* was measured since the start, and one that waits is lost with the stop.
THEOREM FeedTheorem == Spec => ImplementsFeed
<1>1. Init => Feed!Init
  BY DEF Init, Feed!Init
<1>2. IInv /\ [Next]_vars => [Feed!Next]_(Feed!vars)
  BY StepIsFeedStep DEF FeedStep
<1> QED BY <1>1, <1>2, LidarInvariant, PTL DEF Spec, ImplementsFeed, Feed!Spec
=============================================================================
