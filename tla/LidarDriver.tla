----------------------------- MODULE LidarDriver -----------------------------
(***************************************************************************)
(* The lidar as the robot runs it: the ROS node                            *)
(* (ydlidar_ros2_driver_node.cpp), the SDK facade (CYdLidar.cpp) and the   *)
(* driver (YDlidarDriver.cpp) with its scan thread, for a dual channel     *)
(* triangle lidar on a USB serial port (isSingleChannel false, Tmini).     *)
(* Two threads share the driver object:                                    *)
(*   - the main thread: initialize, turnOn, the 20 Hz loop with            *)
(*     doProcessSimple and the stop_scan / start_scan services, shutdown;  *)
(*   - the scan thread: cacheScanData, with checkAutoConnecting when the   *)
(*     device falls silent.                                                *)
(* The cable may be pulled and put back at any moment.  A section under    *)
(* _cmd_lock is one action, but for startMotor at the end of startScan:    *)
(* it holds the lock for 500 ms beside the new scan thread, which reads    *)
(* on and waits where it needs the lock itself.  Points are abstracted to  *)
(* what tells one revolution from another.                                 *)
(***************************************************************************)
EXTENDS Naturals

CONSTANTS
  MaxMisses,   \* DEFAULT_TIMEOUT_COUNT: silent reads before a reconnection
  MaxRounds,   \* m_AbnormalCheckCount: rounds of checkLidarAbnormal
  MaxGrabs     \* grabs of one round (5 in the code)

ASSUME BoundsAssumption ==
  /\ MaxMisses \in Nat
  /\ MaxRounds \in Nat \ {0}
  /\ MaxGrabs \in Nat \ {0}

VARIABLES
  link,   \* the cable, the turning device and the descriptor of the port
  drv,    \* m_isConnected, m_isScanning, isAutoReconnect; param: auto_reconnect
  mail,   \* _dataEvent and scan_node_buf (scan_node_count > 0: full)
  main,   \* the main thread
  thr,    \* the scan thread and its timeout_count
  loc,    \* local_scan: does it begin with a zero point, what does it hold
  pub     \* the last scan published on /scan; turn changes with each one

vars == <<link, drv, mail, main, thr, loc, pub>>

(***************************************************************************)
(* A scan is torn when the device was silent between two of its points,    *)
(* and old when one of its points was measured before the scan thread was  *)
(* started.                                                                *)
(***************************************************************************)
Fd   == {"closed", "live", "dead"}
Link == [plugged : BOOLEAN, turning : BOOLEAN, fd : Fd]
Drv  == [connected : BOOLEAN, scanning : BOOLEAN, auto : BOOLEAN, param : BOOLEAN]
Mail == [event : BOOLEAN, full : BOOLEAN, torn : BOOLEAN, old : BOOLEAN]
Loc  == [sync : BOOLEAN, torn : BOOLEAN, old : BOOLEAN]
Pub  == [turn : {0, 1}, torn : BOOLEAN, old : BOOLEAN]

InLoop == {"loop", "grab", "copy", "serve"}
InTurnOn == {"begin", "command", "created", "motor", "check", "tally"}
MainPc == InLoop \cup InTurnOn \cup {"init", "join", "exit", "close", "done"}
Home == {"exit", "serve"}
Then == Home \cup {"command", "close"}
Main == [pc : MainPc, then : Then, home : Home, tries : {1, 2},
         rounds : 0..MaxRounds, grabs : 0..MaxGrabs]

Reconnecting == {"retry", "connect", "ask", "restart"}
ThrPc == {"none", "born", "test", "wait", "dead"} \cup Reconnecting
Thr == [pc : ThrPc, misses : 0..(MaxMisses + 1)]

Init ==
  /\ link \in [plugged : BOOLEAN, turning : {FALSE}, fd : {"closed"}]
  /\ drv \in [connected : {FALSE}, scanning : {FALSE}, auto : {TRUE}, param : BOOLEAN]
  /\ mail = [event |-> FALSE, full |-> FALSE, torn |-> FALSE, old |-> TRUE]
  /\ main = [pc |-> "init", then |-> "exit", home |-> "exit",
             tries |-> 1, rounds |-> 0, grabs |-> 0]
  /\ thr = [pc |-> "none", misses |-> 0]
  /\ loc = [sync |-> FALSE, torn |-> FALSE, old |-> TRUE]
  /\ pub = [turn |-> 0, torn |-> FALSE, old |-> FALSE]

-----------------------------------------------------------------------------
Goto(pc) == main' = [main EXCEPT !.pc = pc]

(***************************************************************************)
(* stop(): disableDataGrabbing clears m_isScanning, wakes a waiting grab   *)
(* and joins the scan thread, then the device is told to stop.  The main   *)
(* thread goes on at `next' after the join.                                *)
(***************************************************************************)
Halt(next) ==
  /\ drv' = [drv EXCEPT !.scanning = FALSE]
  /\ mail' = [mail EXCEPT !.event = TRUE]
  /\ main' = [main EXCEPT !.pc = "join", !.then = next]

Join ==
  /\ main.pc = "join"
  /\ thr.pc \in {"none", "dead"}
  /\ thr' = [thr EXCEPT !.pc = "none"]
  /\ mail' = [mail EXCEPT !.old = TRUE]
  /\ link' = [link EXCEPT !.turning = link.turning /\ ~(drv.connected /\ link.fd = "live")]
  /\ Goto(main.then)
  /\ UNCHANGED <<drv, loc, pub>>

\* initialize(): opens the port; the answers to the health and device queries
\* are not looked at.  A node whose port does not open goes straight to its end.
Initialize ==
  /\ main.pc = "init"
  /\ \/ /\ link.plugged
        /\ link' = [link EXCEPT !.fd = "live"]
        /\ drv' = [drv EXCEPT !.connected = TRUE]
        /\ main' = [main EXCEPT !.pc = "begin"]
     \/ /\ ~link.plugged
        /\ main' = [main EXCEPT !.pc = "exit"]
        /\ UNCHANGED <<link, drv>>
  /\ UNCHANGED <<mail, thr, loc, pub>>

\* A failed startScan is tried once more; then turnOn stops the driver and
\* returns false, which ends the node at boot and is ignored by the service.
StartFailed ==
  \/ /\ main.tries = 1
     /\ main' = [main EXCEPT !.pc = "begin", !.tries = 2]
     /\ UNCHANGED <<drv, mail>>
  \/ /\ main.tries = 2
     /\ Halt(main.home)

\* startScan() up to the command: it fails on a driver that is not connected.
Begin ==
  /\ main.pc = "begin"
  /\ \/ drv.connected /\ Halt("command")
     \/ ~drv.connected /\ StartFailed
  /\ UNCHANGED <<link, thr, loc, pub>>

\* createThread(): cacheScanData starts with an empty local_scan; what is left
\* of a half read packet of an earlier session is handed out first.
NewThread ==
  /\ thr' = [pc |-> "born", misses |-> 0]
  /\ loc' = [sync |-> FALSE, torn |-> FALSE, old |-> TRUE]

\* The SCAN command and its answer; an answer that is lost may still have
\* started the device.
Command ==
  /\ main.pc = "command"
  /\ \/ /\ link.fd = "live"
        /\ link' = [link EXCEPT !.turning = TRUE]
        /\ NewThread
        /\ main' = [main EXCEPT !.pc = "created"]
        /\ UNCHANGED <<drv, mail>>
     \/ /\ \E t \in {link.turning, link.fd = "live"} : link' = [link EXCEPT !.turning = t]
        /\ StartFailed
        /\ UNCHANGED <<thr, loc>>
  /\ UNCHANGED pub

\* startMotor() takes _cmd_lock and drives DTR on the open port ...
StartMotor ==
  /\ main.pc = "created"
  /\ Goto("motor")
  /\ UNCHANGED <<link, drv, mail, thr, loc, pub>>

\* Mutant: startMotor does not take the lock.
CmdLockIgnored == TRUE

\* Only startMotor holds _cmd_lock for longer than a step.
CmdLockFree == main.pc # "motor"

\* ... and lets it go after 500 ms: the new thread has run by then.  startScan
\* sets m_isScanning itself at the end.
Motor ==
  /\ main.pc = "motor"
  /\ thr.pc # "born"
  /\ drv' = [drv EXCEPT !.scanning = TRUE]
  /\ main' = [main EXCEPT !.pc = "check", !.rounds = 0, !.grabs = 0]
  /\ UNCHANGED <<link, mail, thr, loc, pub>>

-----------------------------------------------------------------------------
(***************************************************************************)
(* checkLidarAbnormal(): grabs until the sampling rate is known, in rounds *)
(* that end with a grab that timed out.                                    *)
(***************************************************************************)
TurnedOn ==
  /\ drv' = [drv EXCEPT !.auto = drv.param]
  /\ main' = [main EXCEPT !.pc = IF main.home = "exit" THEN "loop" ELSE "serve"]

NextRound ==
  /\ main.rounds + 1 < MaxRounds
  /\ main' = [main EXCEPT !.pc = "check", !.rounds = @ + 1, !.grabs = 0]

Check ==
  /\ main.pc = "check"
  /\ \/ /\ mail.event
        /\ mail' = [mail EXCEPT !.event = FALSE]
        /\ main' = [main EXCEPT !.pc = "tally"]
        /\ UNCHANGED drv
     \/ /\ ~mail.event
        /\ \/ NextRound /\ UNCHANGED <<drv, mail>>
           \/ main.rounds + 1 >= MaxRounds /\ Halt(main.home)
  /\ UNCHANGED <<link, thr, loc, pub>>

\* The grab copies under _lock and empties the buffer; one without points
\* never yields a rate.
Tally ==
  /\ main.pc = "tally"
  /\ mail' = [mail EXCEPT !.full = FALSE]
  /\ \/ mail.full /\ TurnedOn
     \/ /\ main.grabs + 1 < MaxGrabs
        /\ main' = [main EXCEPT !.pc = "check", !.grabs = @ + 1]
        /\ UNCHANGED drv
     \/ /\ main.grabs + 1 >= MaxGrabs
        /\ \/ NextRound /\ UNCHANGED drv
           \/ main.rounds + 1 >= MaxRounds /\ TurnedOn
  /\ UNCHANGED <<link, thr, loc, pub>>

-----------------------------------------------------------------------------
(***************************************************************************)
(* The loop of the node: doProcessSimple, then spin_some.                  *)
(***************************************************************************)
CheckHardware ==
  /\ main.pc = "loop"
  /\ Goto(IF drv.scanning THEN "grab" ELSE "serve")
  /\ UNCHANGED <<link, drv, mail, thr, loc, pub>>

Grab ==
  /\ main.pc = "grab"
  /\ mail' = [mail EXCEPT !.event = FALSE]
  /\ Goto(IF mail.event THEN "copy" ELSE "serve")
  /\ UNCHANGED <<link, drv, thr, loc, pub>>

\* Mutant: scan_node_count is not reset by the grab.
CopyKeepsScan ==
  /\ main.pc = "copy"
  /\ pub' = IF mail.full
            THEN [turn |-> 1 - pub.turn, torn |-> mail.torn, old |-> mail.old]
            ELSE pub
  /\ Goto("serve")
  /\ UNCHANGED <<link, drv, mail, thr, loc>>

\* The copy under _lock; a grab with points is published.
Copy ==
  /\ main.pc = "copy"
  /\ mail' = [mail EXCEPT !.full = FALSE]
  /\ pub' = IF mail.full
            THEN [turn |-> 1 - pub.turn, torn |-> mail.torn, old |-> mail.old]
            ELSE pub
  /\ Goto("serve")
  /\ UNCHANGED <<link, drv, thr, loc>>

NoRequest ==
  /\ main.pc = "serve"
  /\ Goto("loop")
  /\ UNCHANGED <<link, drv, mail, thr, loc, pub>>

StopScanService ==
  /\ main.pc = "serve"
  /\ Halt("serve")
  /\ UNCHANGED <<link, thr, loc, pub>>

\* turnOn() returns at once on a driver that scans.
StartScanService ==
  /\ main.pc = "serve"
  /\ ~drv.scanning
  /\ main' = [main EXCEPT !.pc = "begin", !.home = "serve", !.tries = 1]
  /\ UNCHANGED <<link, drv, mail, thr, loc, pub>>

\* rclcpp::ok() is false, or the boot failed: turnOff().
Exit ==
  /\ main.pc \in {"loop", "serve", "exit"}
  /\ Halt("close")
  /\ UNCHANGED <<link, thr, loc, pub>>

\* Mutant: m_isConnected is cleared before the port is closed.
CloseTooLate ==
  /\ main.pc = "close"
  /\ drv' = [drv EXCEPT !.auto = FALSE, !.connected = FALSE]
  /\ Goto("done")
  /\ UNCHANGED <<link, mail, thr, loc, pub>>

\* disconnecting(): returns early on a driver that is not connected.
Close ==
  /\ main.pc = "close"
  /\ drv' = [drv EXCEPT !.auto = FALSE, !.connected = FALSE]
  /\ link' = IF drv.connected
             THEN [link EXCEPT !.fd = "closed", !.turning = link.turning /\ link.fd # "live"]
             ELSE link
  /\ mail' = [mail EXCEPT !.event = mail.event \/ drv.connected]
  /\ Goto("done")
  /\ UNCHANGED <<thr, loc, pub>>

MainStep ==
  \/ Initialize \/ Join \/ Begin \/ Command \/ StartMotor \/ Motor \/ Check \/ Tally
  \/ CheckHardware \/ Grab \/ Copy \/ NoRequest \/ Close
  \/ (main.pc = "exit" /\ Exit)

-----------------------------------------------------------------------------
(***************************************************************************)
(* The scan thread: cacheScanData.                                         *)
(***************************************************************************)
ThreadStart ==
  /\ thr.pc = "born"
  /\ thr' = [thr EXCEPT !.pc = "test"]
  /\ drv' = [drv EXCEPT !.scanning = TRUE]
  /\ UNCHANGED <<link, mail, main, loc, pub>>

Die ==
  /\ thr' = [thr EXCEPT !.pc = "dead"]
  /\ drv' = [drv EXCEPT !.scanning = FALSE]

ThreadTest ==
  /\ thr.pc = "test"
  /\ \/ drv.scanning /\ thr' = [thr EXCEPT !.pc = "wait"] /\ UNCHANGED drv
     \/ ~drv.scanning /\ Die
  /\ UNCHANGED <<link, mail, main, loc, pub>>

Streaming == link.fd = "live" /\ link.turning

GotNodes ==
  /\ thr.pc = "wait"
  /\ Streaming
  /\ thr' = [pc |-> "test", misses |-> 0]
  /\ UNCHANGED <<link, drv, mail, main, loc, pub>>

\* A zero point ends the revolution in local_scan, which is handed over under
\* _lock when it began with one, and begins the next.
GotZero ==
  /\ thr.pc = "wait"
  /\ Streaming
  /\ thr' = [pc |-> "test", misses |-> 0]
  /\ mail' = IF loc.sync
             THEN [event |-> TRUE, full |-> TRUE, torn |-> loc.torn, old |-> loc.old]
             ELSE mail
  /\ loc' = [sync |-> TRUE, torn |-> FALSE, old |-> FALSE]
  /\ UNCHANGED <<link, drv, main, pub>>

\* Mutant: a time-out leaves the zero point of local_scan in place.
UnsyncedKeepsSync == [loc EXCEPT !.torn = TRUE]

\* waitScanData fails: the revolution in local_scan is not handed over.
Unsynced == [loc EXCEPT !.sync = FALSE, !.torn = TRUE]

Missed ==
  /\ thr.pc = "wait"
  /\ thr.misses <= MaxMisses
  /\ thr' = [thr EXCEPT !.pc = "test", !.misses = @ + 1]
  /\ loc' = Unsynced
  /\ UNCHANGED <<link, drv, mail, main, pub>>

\* Mutant: auto_reconnect is ignored.
SilentEnds ==
  /\ thr.pc = "wait"
  /\ thr.misses > MaxMisses
  /\ Die
  /\ UNCHANGED <<link, mail, main, loc, pub>>

\* One more silent read: reconnect, or end the thread when not allowed to.
Silent ==
  /\ thr.pc = "wait"
  /\ thr.misses > MaxMisses
  /\ \/ drv.auto /\ thr' = [thr EXCEPT !.pc = "retry"] /\ UNCHANGED drv
     \/ ~drv.auto /\ Die
  /\ UNCHANGED <<link, mail, main, loc, pub>>

\* Mutant: the port is opened again without having been closed.
RetryKeepsPort ==
  /\ thr.pc = "retry"
  /\ \/ /\ drv.auto /\ drv.scanning
        /\ thr' = [thr EXCEPT !.pc = "connect"]
        /\ UNCHANGED drv
     \/ ~(drv.auto /\ drv.scanning) /\ Die
  /\ UNCHANGED <<link, mail, main, loc, pub>>

\* checkAutoConnecting(): close the port ...
Retry ==
  /\ thr.pc = "retry"
  /\ \/ /\ drv.auto /\ drv.scanning
        /\ CmdLockFree
        /\ thr' = [thr EXCEPT !.pc = "connect"]
        /\ drv' = [drv EXCEPT !.connected = drv.connected /\ link.fd = "closed"]
        /\ link' = [link EXCEPT !.fd = "closed"]
     \/ /\ ~(drv.auto /\ drv.scanning)
        /\ Die
        /\ UNCHANGED link
  /\ UNCHANGED <<mail, main, loc, pub>>

\* Mutant: the loop that opens the port does not look at m_isScanning.
GivesUpNever == FALSE

\* ... open it again, every 300 ms until it opens or the scan is stopped (a
\* port that is open stays as it is) ...
GivesUp == ~drv.scanning

Connect ==
  /\ thr.pc = "connect"
  /\ \/ /\ ~GivesUp
        /\ CmdLockFree
        /\ link.plugged \/ link.fd # "closed"
        /\ link' = [link EXCEPT !.fd = IF @ = "closed" THEN "live" ELSE @]
        /\ drv' = [drv EXCEPT !.connected = TRUE]
        /\ thr' = [thr EXCEPT !.pc = "ask"]
     \/ /\ GivesUp
        /\ Die
        /\ UNCHANGED link
  /\ UNCHANGED <<mail, main, loc, pub>>

Ask ==
  /\ thr.pc = "ask"
  /\ \/ drv.scanning /\ thr' = [thr EXCEPT !.pc = "restart"] /\ UNCHANGED drv
     \/ ~drv.scanning /\ Die
  /\ UNCHANGED <<link, mail, main, loc, pub>>

\* ... and start the device with getDeviceInfo and startAutoScan.
RestartOk ==
  /\ thr.pc = "restart"
  /\ CmdLockFree
  /\ link.fd = "live"
  /\ link' = [link EXCEPT !.turning = TRUE]
  /\ thr' = [pc |-> "test", misses |-> 0]
  /\ loc' = Unsynced
  /\ UNCHANGED <<drv, mail, main, pub>>

RestartFailed ==
  /\ thr.pc = "restart"
  /\ CmdLockFree
  /\ \E t \in {link.turning, FALSE, link.fd = "live"} : link' = [link EXCEPT !.turning = t]
  /\ thr' = [thr EXCEPT !.pc = "retry"]
  /\ UNCHANGED <<drv, mail, main, loc, pub>>

ThreadStep ==
  \/ ThreadStart \/ ThreadTest \/ GotNodes \/ GotZero \/ Missed \/ Silent
  \/ Retry \/ Connect \/ Ask \/ RestartOk \/ RestartFailed

-----------------------------------------------------------------------------
(***************************************************************************)
(* The cable.  A pulled cable kills the descriptor for good: only a port   *)
(* that is opened again after the cable is back talks to the device.       *)
(***************************************************************************)
Plug ==
  /\ ~link.plugged
  /\ link' = [link EXCEPT !.plugged = TRUE]
  /\ UNCHANGED <<drv, mail, main, thr, loc, pub>>

Unplug ==
  /\ link.plugged
  /\ link' = [plugged |-> FALSE, turning |-> FALSE,
              fd |-> IF link.fd = "live" THEN "dead" ELSE link.fd]
  /\ UNCHANGED <<drv, mail, main, thr, loc, pub>>

Next ==
  \/ MainStep \/ StopScanService \/ StartScanService \/ Exit
  \/ ThreadStep
  \/ Plug \/ Unplug

Spec == Init /\ [][Next]_vars

(***************************************************************************)
(* Both threads are scheduled.  A device that streams delivers, every now  *)
(* and then, two zero points with no second of silence between them, and a *)
(* device that is asked again and again answers at last.                   *)
(***************************************************************************)
FairSpec ==
  /\ Spec
  /\ WF_vars(MainStep)
  /\ WF_vars(ThreadStep)
  /\ SF_vars(GotZero)
  /\ SF_vars(GotZero /\ loc.sync)
  /\ SF_vars(RestartOk)

-----------------------------------------------------------------------------
(***************************************************************************)
(* Properties.                                                             *)
(***************************************************************************)
TypeOK ==
  /\ link \in Link
  /\ drv \in Drv
  /\ mail \in Mail
  /\ main \in Main
  /\ thr \in Thr
  /\ loc \in Loc
  /\ pub \in Pub

\* The two threads do not disturb each other on the serial port.  While the main
\* thread opens it, commands the device or closes it there is no live scan
\* thread (the join of disableDataGrabbing comes before every command).  Only
\* startMotor meets one: it drives DTR while the new thread reads, but as long
\* as it holds _cmd_lock the thread neither closes nor opens the port nor talks
\* to the device.
PortExclusive ==
  [][/\ main.pc \in {"init", "command", "close"} => thr.pc = "none"
     /\ main.pc = "motor" /\ ThreadStep => link' = link]_vars

\* A published scan was measured since the scan was last started and spans no
\* silence of the device, whatever was lost, stopped and started in between.  (A
\* package dropped for a damaged header or checksum is not a silence: the gap it
\* leaves in a revolution is not seen here.)
WholeAndFresh == ~pub.torn /\ ~pub.old

\* With auto_reconnect on, a driver that says it is scanning has a thread that
\* reads or reconnects: doProcessSimple does not wait for scans nobody makes.
ScanningIsServed == drv.auto /\ drv.scanning => thr.pc \notin {"none", "dead"}

\* A node that has ended leaves no thread and no open port behind, whether the
\* cable was in or out when it ended.
CleanEnd ==
  main.pc = "done" => thr.pc = "none" /\ link.fd = "closed" /\ ~drv.connected

\* Boot, start_scan, stop_scan and shutdown all come to an end, with the cable
\* in or out and a reconnection under way: the join never hangs.
CallsReturn == main.pc \notin InLoop \cup {"done"} ~> main.pc \in InLoop \cup {"done"}

\* A cable that is put back for good while the driver scans with auto_reconnect
\* on brings the scans back: /scan goes on for ever.
Steady == link.plugged /\ drv.auto /\ drv.scanning /\ main.pc \in InLoop
ScansComeBack == <>[]Steady => []<>(pub.turn = 0) /\ []<>(pub.turn = 1)

(***************************************************************************)
(* What the driver promises its reader: a feed of scans (ScanFeed).        *)
(***************************************************************************)
Feed == INSTANCE ScanFeed WITH
  running <- thr.pc # "none",
  ready   <- mail.full /\ ~mail.old,
  turn    <- pub.turn

ImplementsFeed == Feed!Spec
=============================================================================
