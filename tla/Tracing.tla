-------------------------------- MODULE Tracing --------------------------------
(***************************************************************************)
(* Who prints what, and behind which mutexes.  TracePrinter::printTrace     *)
(* posts a line to the printing thread; PlatformDebug::println prints one   *)
(* at once; both end in OLEDScreen::print of OLEDText.  The threads call    *)
(* them while they hold the collector's, the file system's or the radio's   *)
(* mutex.                                                                   *)
(*                                                                          *)
(* The work of a thread is the sequence of the steps it has still to take:  *)
(* every step is one call on a mutex, a mailbox or the screen.              *)
(***************************************************************************)
EXTENDS OLEDText

CONSTANTS TraceSize,    \* blocks of TracePrinter::_mail_box: 64
          MaxWorks,     \* bound: pieces of work
          MaxLong       \* bound: calls of print() with any text; later lines are short

ASSUME TracingAssumption ==
    /\ TraceSize \in Nat \ {0} /\ MaxWorks \in Nat /\ MaxLong \in Nat
    /\ 3 * MaxWorks <= MaxCalls
    /\ Widths # {} /\ MaxLen > 0

VARIABLES work,     \* what each thread has to do
          owner,    \* of each mutex
          waiting,  \* lines in the mailbox of the printing thread
          works,    \* pieces of work begun so far
          panic     \* a NULL mail was written to: the system restarts

traceVars == <<work, owner, waiting, works, panic>>

None    == "none"
Mutexes == {"collector", "network", "radio", "ffat", "trace", "std"}
Threads == {"mqtt", "background", "other", "printer"}

Lock(m)   == <<"lock", m>>
Unlock(m) == <<"unlock", m>>
Under(m, steps) == <<Lock(m)>> \o steps \o <<Unlock(m)>>

Post      == <<"post">>
CallPrint == <<"print">>
Returned  == <<"returned">>
Free      == <<"free">>
------------------------------------------------------------------------------
\* The mutex is not released on the way out for an empty line.
BugPrintTrace == <<Lock("trace"), Post>>

printTrace == Under("trace", <<Post>>)

println == Under("std", <<CallPrint, Returned>>)

\* FFatHelper::writeFile reports what became of it.
writeFile == Under("ffat", println)

\* MQTTNetwork::publish only holds its mutex for the test of _connected.
publish == Under("network", <<>>)

\* run_mqtt_service with a "beacons" command; the lines that it traces before
\* it writes the file stand as one.
ServeCommand == Under("collector", printTrace \o writeFile \o printTrace \o publish)

\* run_background_service
PublishFingerprint == Under("collector", printTrace \o publish)

\* LoRaNetwork::sendMessage traces while it waits for its time to send.
SendMessage == Under("radio", printTrace)

\* run_debug_trace with a mail
ShowTrace == println \o <<Free>>

\* The callbacks of WiFi and MQTT trace without a mutex.
Works ==
    [mqtt |-> {ServeCommand}, background |-> {PublishFingerprint},
     other |-> {printTrace, SendMessage}, printer |-> {}]
------------------------------------------------------------------------------
TraceInit ==
    /\ TextInit
    /\ work = [t \in Threads |-> <<>>]
    /\ owner = [m \in Mutexes |-> None]
    /\ waiting = 0 /\ works = 0 /\ panic = FALSE

Begin(t) ==
    /\ work[t] = <<>> /\ works < MaxWorks
    /\ works' = works + 1
    /\ \E steps \in Works[t] : work' = [work EXCEPT ![t] = steps]
    /\ UNCHANGED <<textVars, owner, waiting, panic>>

PrinterGets ==
    /\ work["printer"] = <<>> /\ waiting > 0
    /\ waiting' = waiting - 1
    /\ work' = [work EXCEPT !["printer"] = ShowTrace]
    /\ UNCHANGED <<textVars, owner, works, panic>>

Takes(t, step) ==
    /\ work[t] # <<>> /\ Head(work[t]) = step
    /\ work' = [work EXCEPT ![t] = Tail(@)]
    /\ UNCHANGED works

Locks(t) ==
    /\ \E m \in Mutexes :
        /\ Takes(t, Lock(m)) /\ owner[m] = None
        /\ owner' = [owner EXCEPT ![m] = t]
    /\ UNCHANGED <<textVars, waiting, panic>>

Unlocks(t) ==
    /\ \E m \in Mutexes : Takes(t, Unlock(m)) /\ owner' = [owner EXCEPT ![m] = None]
    /\ UNCHANGED <<textVars, waiting, panic>>

\* alloc() may have no block; printTrace does not look.
Posts(t) ==
    LET used == waiting + (IF work["printer"] = <<>> THEN 0 ELSE 1) IN
    /\ Takes(t, Post)
    /\ IF used < TraceSize THEN waiting' = waiting + 1 /\ UNCHANGED panic
                           ELSE panic' = TRUE /\ UNCHANGED waiting
    /\ UNCHANGED <<textVars, owner>>

\* OLEDScreen::print; what writeFile prints is short.
Short == <<CHOOSE w \in Widths : TRUE>>

Prints(t) ==
    /\ Takes(t, CallPrint)
    /\ \E line \in IF t = "printer" /\ calls < MaxLong THEN Texts ELSE {Short} : print(line)
    /\ UNCHANGED <<owner, waiting, panic>>

Returns(t) ==
    /\ Takes(t, Returned) /\ pc = "idle"
    /\ UNCHANGED <<textVars, owner, waiting, panic>>

PrinterFrees ==
    /\ Takes("printer", Free)
    /\ UNCHANGED <<textVars, owner, waiting, panic>>

\* Who prints goes through the loops of OLEDScreen::print.
Cuts(t) == owner["std"] = t /\ Step /\ UNCHANGED traceVars

Goes(t) ==
    /\ ~panic
    /\ \/ Locks(t) \/ Unlocks(t) \/ Posts(t) \/ Prints(t) \/ Cuts(t) \/ Returns(t)
       \/ t = "printer" /\ (PrinterGets \/ PrinterFrees)

TraceNext == \E t \in Threads : Goes(t) \/ (~panic /\ Begin(t))

(* Every thread is scheduled. *)
TraceSpec ==
    /\ TraceInit /\ [][TraceNext]_<<textVars, traceVars>>
    /\ \A t \in Threads : WF_<<textVars, traceVars>>(Goes(t))
------------------------------------------------------------------------------
(* Every thread comes to the end of what it does: the cuts of print() end,  *)
(* and no thread waits for ever for a mutex although four are nested, or    *)
(* behind the printing thread; unless a NULL mail stops them all            *)
(* (platform_debug.h:316-336, FFatHelper.cpp:55-69, OLEDScreen.cpp:97-157). *)
WorkDone == \A t \in Threads : work[t] # <<>> ~> work[t] = <<>> \/ panic
===============================================================================
