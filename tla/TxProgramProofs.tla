---------------------------- MODULE TxProgramProofs ----------------------------
(***************************************************************************)
(* Theorems about TxProgram, for all command lines, files and bounds: type *)
(* correctness, what follows a transmission that did not report NORMAL,    *)
(* when SIGINT can kill the program, and that all that was asked for is    *)
(* sent.                                                                   *)
(***************************************************************************)
EXTENDS TxProgram, SequenceTheorems, TLAPS

-------------------------------------------------------------------------------
(* The mode is one of three once the command line is parsed.               *)

\* parse_opt keeps every field of the arguments.
ArgsInv ==
    /\ argv \in Seq(Options) /\ DOMAIN args = DOMAIN TxDefaults
    /\ pc \notin Over \cup {"parse"} => args.mode \in Modes

LEMMA ParseOptKeeps ==
    ASSUME NEW a, NEW opt \in Options
    PROVE  DOMAIN ParseOpt(a, opt) = DOMAIN a
<1>1. opt.key \in Keys
  BY TxAssumption
<1> QED
  BY <1>1 DEF ParseOpt, Keys

LEMMA ParseEndKeeps ==
    ASSUME NEW a, DOMAIN a = DOMAIN TxDefaults, NEW d
    PROVE  DOMAIN ParseEnd(a, d) = DOMAIN a /\ ParseEnd(a, d).mode \in Modes
<1>1. "mode" \in DOMAIN a
  BY DEF TxDefaults
<1> QED
  BY <1>1 DEF ParseEnd, Modes

LEMMA ArgsInvStep == ArgsInv /\ [Next]_vars => ArgsInv'
<1> SUFFICES ASSUME ArgsInv, [Next]_vars PROVE ArgsInv'
  OBVIOUS
<1>1. CASE ParseOption
  <2>1. Head(argv) \in Options /\ Tail(argv) \in Seq(Options)
    BY <1>1 DEF ParseOption, ArgsInv
  <2> QED
    BY <1>1, <2>1, ParseOptKeeps DEF ParseOption, ArgsInv, Over
<1>2. CASE ParseLast
  BY <1>2, ParseEndKeeps DEF ParseLast, ArgsInv
<1>3. CASE PcapFails \/ Setup \/ Close
  BY <1>3 DEF PcapFails, Setup, Close, ArgsInv, cli, Over
<1>4. CASE Sigint
  BY <1>4 DEF Sigint, Killed, StopsTransmission, StopsWatch, ArgsInv, cli, Over
<1>5. CASE UNCHANGED <<pc, cli>>
  BY <1>5 DEF ArgsInv, cli
<1>6. ASSUME NEW f \in NewFiles, Appear(f) PROVE ArgsInv'
  BY <1>5, <1>6 DEF Appear
<1>7. CASE ListFiles \/ ListDirectory \/ Watch \/ StreamEnds
  <2>1. pc \notin Over \cup {"parse"} /\ UNCHANGED cli
    <3>1. CASE ListFiles \/ StreamEnds
      BY <3>1 DEF ListFiles, OpenFile, EndFiles, Seek, CloseFile, Install, Activate, FileEnds,
                  StreamEnds, Finish, Restore, Delay, Over
    <3>2. CASE ListDirectory
      BY <3>2 DEF ListDirectory, OpenDirectory, SkipContents, NextEntry, EndContents, Over
    <3>3. CASE Watch
      BY <3>3 DEF Watch, WatchFails, AddWatch, Arm, BeginListen, TestListen, EnterPoll,
                  WatchTimeout, ReadEvents, TransmitNewFile, EndEvents, Unarm, Over
    <3> QED
      BY <1>7, <3>1, <3>2, <3>3
  <2> QED
    BY <2>1 DEF ArgsInv, cli
<1> QED
  BY <1>1, <1>2, <1>3, <1>4, <1>5, <1>6, <1>7 DEF Next, Program, Environment, vars

-------------------------------------------------------------------------------
(* The handlers of SIGINT nest.                                            *)

ListPCs == {"next", "again", "install", "sending", "delay"}
Callers == {"stream", "list", "contents", "watch"}

\* The handler that the watch or, outside of it, the default action provides, and the
\* dispositions that are saved around it.
InWatch == pc \in WatchPCs \cup {"unarm"} \/ caller = "watch"
Current == IF InWatch THEN "watch" ELSE "default"
Outer   == IF InWatch THEN <<"default">> ELSE << >>

\* Who has called transmit_files, at each place of the program.
CallerInv ==
    /\ caller = "watch" => pc \in ListPCs \cup Over
    /\ pc \in ListPCs => caller \in Callers
    /\ pc \in {"next", "again", "delay"} => caller # "stream"
    /\ pc \in {"parse", "setup", "directory"} => caller = "none"
    /\ pc = "contents" => caller = "contents"

\* A transmission installs its handler above whatever was there, and only then is it under
\* way.
NestInv ==
    pc \notin Over =>
        /\ IF pc = "sending" THEN disp = "tx" /\ saved = Append(Outer, Current)
                             ELSE disp = Current /\ saved = Outer
        /\ phase = "idle" <=> pc # "sending"

\* What a change of handlers takes off is what was put on.
LEMMA TakeOff ==
    ASSUME NEW S, NEW s \in Seq(S), NEW d \in S
    PROVE  Last(Append(s, d)) = d /\ Front(Append(s, d)) = s
<1>1. Len(Append(s, d)) = Len(s) + 1 /\ Len(s) \in Nat
  BY AppendProperties
<1>2. Append(s, d)[Len(s) + 1] = d /\ \A i \in 1..Len(s) : Append(s, d)[i] = s[i]
  BY AppendProperties
<1>3. SubSeq(Append(s, d), 1, Len(s)) = s
  BY <1>1, <1>2
<1> QED
  BY <1>1, <1>2, <1>3 DEF Last, Front

\* Steps of the program that call nothing and change no handler.
LEMMA Quiet ==
    ASSUME CallerInv, NestInv, UNCHANGED <<signal, engine, caller>>,
           pc \notin Over \cup {"sending"}, pc' # "sending",
           pc' \in Over \/ InWatch' = InWatch,
           caller = "watch" => pc' \in ListPCs \cup Over,
           pc' \in ListPCs => caller \in Callers \ {"stream"},
           pc' \in {"parse", "setup", "directory"} => caller = "none",
           pc' = "contents" => caller = "contents"
    PROVE  CallerInv' /\ NestInv'
BY DEF CallerInv, NestInv, signal, engine, Current, Outer, ListPCs, Callers, Over

LEMMA NestStep == ASSUME ArgsInv, CallerInv, NestInv, [Next]_vars PROVE CallerInv' /\ NestInv'
<1> USE DEF Over, ListPCs, Callers
<1>1. CASE Sigint
  <2>1. pc \notin Over /\ UNCHANGED <<signal, caller>>
    BY <1>1 DEF Sigint, list
  <2>2. CASE Killed
    BY <2>1, <2>2 DEF Killed, CallerInv, NestInv
  <2>3. CASE StopsTransmission
    <3>1. UNCHANGED <<pc, phase>>
      BY <2>3 DEF StopsTransmission, Engine!Stop
    <3> QED
      BY <2>1, <3>1 DEF CallerInv, NestInv, signal, Current, Outer, InWatch
  <2>4. CASE StopsWatch
    <3>1. phase' = phase /\ disp = "watch" /\ pc' = (IF pc = "poll" THEN "listen" ELSE pc)
      BY <2>4 DEF StopsWatch, engine
    <3>2. InWatch' = InWatch
      BY <2>1, <3>1 DEF InWatch, WatchPCs
    <3> QED
      BY <2>1, <3>1, <3>2 DEF CallerInv, NestInv, signal, Current, Outer
  <2> QED
    BY <1>1, <2>2, <2>3, <2>4 DEF Sigint
<1>2. CASE UNCHANGED <<pc, signal, phase, caller>>
  BY <1>2 DEF CallerInv, NestInv, signal, Current, Outer, InWatch
<1>3. ASSUME NEW f \in NewFiles, Appear(f) PROVE CallerInv' /\ NestInv'
  BY <1>2, <1>3 DEF Appear, engine, list
<1>4. CASE ParseOption \/ ParseLast \/ PcapFails \/ Close
  <2>1. /\ pc \in {"parse", "setup", "close"}
        /\ pc' \in {"parse", "usage", "setup", "aborted", "exited"}
        /\ pc = "close" => pc' = "exited"
        /\ UNCHANGED <<signal, engine, caller>>
    BY <1>4 DEF ParseOption, ParseLast, PcapFails, Close, list
  <2> QED
    BY <2>1, Quiet DEF CallerInv, InWatch, WatchPCs
<1>5. CASE Setup
  <2>1. args.mode \in Modes
    BY <1>5 DEF Setup, ArgsInv
  <2>2. /\ pc = "setup" /\ UNCHANGED <<signal, engine>>
        /\ \/ pc' = "install" /\ caller' = "stream"
           \/ pc' = "next" /\ caller' = "list"
           \/ pc' = "directory" /\ caller' = "none"
    BY <1>5, <2>1 DEF Setup, Modes
  <2> QED
    BY <2>2 DEF CallerInv, NestInv, signal, engine, Current, Outer, InWatch, WatchPCs
<1>6. CASE OpenFile \/ Seek \/ CloseFile \/ Delay
  <2>1. /\ pc \in {"next", "again", "delay"} /\ pc' \in {"next", "again", "install"}
        /\ UNCHANGED <<signal, engine, caller>>
    BY <1>6 DEF OpenFile, Seek, CloseFile, Delay
  <2> QED
    BY <2>1, Quiet DEF CallerInv, InWatch, WatchPCs
<1>7. CASE EndFiles
  <2>1. /\ pc = "next" /\ pc' = Return[caller] /\ UNCHANGED <<signal, engine>>
        /\ caller' = IF caller = "contents" THEN caller ELSE "none"
    BY <1>7 DEF EndFiles
  <2>2. \/ caller = "list" /\ pc' = "close"
        \/ caller = "contents" /\ pc' = "contents"
        \/ caller = "watch" /\ pc' = "events"
    BY <2>1 DEF CallerInv, Return
  <2> QED
    BY <2>1, <2>2 DEF CallerInv, NestInv, signal, engine, Current, Outer, InWatch, WatchPCs
<1>8. CASE Install
  <2>1. /\ pc = "install" /\ pc' = "sending" /\ phase' = "begun" /\ caller' = caller
        /\ saved' = Append(saved, disp) /\ disp' = "tx"
    BY <1>8 DEF Install, Engine!Begin, list
  <2>2. InWatch' = InWatch
    BY <2>1 DEF InWatch, WatchPCs
  <2> QED
    BY <2>1, <2>2 DEF CallerInv, NestInv, Current, Outer
<1>9. CASE Activate \/ Finish
  <2>1. pc = "sending" /\ phase # "idle" /\ phase' # "idle" /\ UNCHANGED <<pc, signal, caller>>
    BY <1>9 DEF Activate, Finish, Engine!Activate, Engine!Finish, list
  <2> QED
    BY <2>1 DEF CallerInv, NestInv, signal, Current, Outer, InWatch
<1>10. CASE Restore
  <2>1. /\ pc = "sending" /\ phase' = "idle" /\ caller' = caller
        /\ disp' = Last(saved) /\ saved' = Front(saved)
        /\ pc' = IF caller = "stream" THEN "close" ELSE "delay"
    BY <1>10 DEF Restore, Restored, Engine!End
  <2>2. InWatch' = InWatch
    BY <2>1 DEF InWatch, WatchPCs
  <2>3. Outer \in Seq({"default", "watch"}) /\ Current \in {"default", "watch"}
    <3>1. << >> \in Seq({"default", "watch"}) /\ <<"default">> \in Seq({"default", "watch"})
      OBVIOUS
    <3> QED
      BY <3>1 DEF Outer, Current
  <2>4. disp' = Current /\ saved' = Outer
    BY <2>1, <2>3, TakeOff DEF NestInv
  <2> QED
    BY <2>1, <2>2, <2>4 DEF CallerInv, NestInv, Current, Outer
<1>11. CASE OpenDirectory
  <2>1. pc = "directory" /\ pc' = "contents" /\ caller' = "contents" /\ UNCHANGED <<signal, engine>>
    BY <1>11 DEF OpenDirectory
  <2> QED
    BY <2>1 DEF CallerInv, NestInv, signal, engine, Current, Outer, InWatch, WatchPCs
<1>12. CASE SkipContents \/ EndContents
  <2>1. /\ pc \in {"directory", "contents"} /\ pc' \in {"watch", "close"}
        /\ caller # "watch" /\ caller' # "watch"
        /\ UNCHANGED <<signal, engine>>
    BY <1>12 DEF SkipContents, EndContents, AfterContents, CallerInv, list
  <2> QED
    BY <2>1 DEF CallerInv, NestInv, signal, engine, Current, Outer, InWatch, WatchPCs
<1>13. ASSUME NEW f \in Files, NextEntry(f) PROVE CallerInv' /\ NestInv'
  <2>1. pc = "contents" /\ pc' \in {"contents", "next"} /\ UNCHANGED <<signal, engine, caller>>
    BY <1>13 DEF NextEntry
  <2> QED
    BY <2>1, Quiet DEF CallerInv, InWatch, WatchPCs
<1>14. CASE WatchFails \/ AddWatch
  <2>1. pc = "watch" /\ pc' \in {"arm", "aborted"} /\ UNCHANGED <<signal, engine, caller>>
    BY <1>14 DEF WatchFails, AddWatch, list
  <2> QED
    BY <2>1, Quiet DEF CallerInv, InWatch, WatchPCs
<1>15. CASE Arm
  <2>1. /\ pc = "arm" /\ pc' = "begin" /\ UNCHANGED <<engine, caller>>
        /\ saved' = Append(saved, disp) /\ disp' = "watch"
    BY <1>15 DEF Arm, list
  <2>2. Append(<< >>, "default") = <<"default">>
    OBVIOUS
  <2> QED
    BY <2>1, <2>2 DEF CallerInv, NestInv, engine, Current, Outer, InWatch, WatchPCs
<1>16. CASE BeginListen \/ TestListen \/ EnterPoll \/ WatchTimeout \/ ReadEvents \/ EndEvents
  <2>1. /\ pc \in WatchPCs /\ pc' \in WatchPCs \cup {"unarm"}
        /\ UNCHANGED <<signal, engine, caller>>
    BY <1>16 DEF BeginListen, TestListen, EnterPoll, WatchTimeout, ReadEvents, EndEvents,
                 WatchPCs, list
  <2> QED
    BY <2>1, Quiet DEF CallerInv, InWatch, WatchPCs
<1>17. CASE TransmitNewFile
  <2>1. pc = "events" /\ pc' = "next" /\ caller' = "watch" /\ UNCHANGED <<signal, engine>>
    BY <1>17 DEF TransmitNewFile
  <2> QED
    BY <2>1 DEF CallerInv, NestInv, signal, engine, Current, Outer, InWatch, WatchPCs
<1>18. CASE Unarm
  <2>1. /\ pc = "unarm" /\ pc' = "close" /\ UNCHANGED <<engine, caller>>
        /\ disp' = Last(saved) /\ saved' = Front(saved)
    BY <1>18 DEF Unarm, Restored, list
  <2>2. saved = Append(<< >>, "default") /\ caller # "watch"
    BY <2>1 DEF CallerInv, NestInv, InWatch, Outer
  <2>3. disp' = "default" /\ saved' = << >>
    <3> DEFINE S == {"default"}
    <3>1. << >> \in Seq(S) /\ "default" \in S
      OBVIOUS
    <3>2. \A s \in Seq(S), d \in S : Last(Append(s, d)) = d /\ Front(Append(s, d)) = s
      BY TakeOff
    <3> HIDE DEF S
    <3>3. Last(Append(<< >>, "default")) = "default" /\ Front(Append(<< >>, "default")) = << >>
      BY <3>1, <3>2
    <3> QED
      BY <2>1, <2>2, <3>3
  <2> QED
    BY <2>1, <2>2, <2>3 DEF CallerInv, NestInv, engine, Current, Outer, InWatch, WatchPCs
<1> QED
  BY <1>1, <1>2, <1>3, <1>4, <1>5, <1>6, <1>7, <1>8, <1>9, <1>10, <1>11, <1>12, <1>13, <1>14,
     <1>15, <1>16, <1>17, <1>18
  DEF Next, Program, Environment, ListFiles, ListDirectory, Watch, StreamEnds, FileEnds, vars,
      engine, list

TxInv == ArgsInv /\ CallerInv /\ NestInv

LEMMA TxInvHolds == Spec => []TxInv
<1>1. Init => TxInv
  <2> SUFFICES ASSUME Init PROVE TxInv
    OBVIOUS
  <2>1. argv \in Seq(Options)
    BY TxAssumption DEF Init
  <2>2. /\ pc = "parse" /\ args = TxDefaults /\ disp = "default" /\ saved = << >>
        /\ caller = "none" /\ phase = "idle"
    BY DEF Init, Engine!Init
  <2> QED
    BY <2>1, <2>2 DEF TxInv, ArgsInv, CallerInv, NestInv, Current, Outer, InWatch, WatchPCs,
                      ListPCs, Over
<1>2. TxInv /\ [Next]_vars => TxInv'
  BY ArgsInvStep, NestStep DEF TxInv
<1> QED
  BY <1>1, <1>2, PTL DEF Spec

\* SIGINT kills the program only between transmissions and outside of the loop of the
\* watch, for every command line and any number of signals: each handler puts back the
\* disposition that it found (tx.c:224-226, 379-383).
THEOREM SigintKillsBetween == Spec => KilledOnlyBetween
<1>1. TxInv /\ [Next]_vars
      => [pc' = "killed" => phase = "idle" /\ pc \notin WatchPCs /\ caller # "watch"]_vars
  <2> SUFFICES ASSUME TxInv, Next, pc' = "killed"
               PROVE  phase = "idle" /\ pc \notin WatchPCs /\ caller # "watch"
    OBVIOUS
  <2>1. Sigint
    <3>1. ~(\E f \in NewFiles : Appear(f)) /\ ~StreamEnds
      BY DEF Appear, StreamEnds, Finish, Over
    <3>2. ~(ParseOption \/ ParseLast \/ PcapFails \/ Close)
      BY DEF ParseOption, ParseLast, PcapFails, Close
    <3>3. ~Setup
      BY DEF Setup, TxInv, ArgsInv, Modes, Over
    <3>4. ~ListFiles
      <4>1. ~EndFiles
        BY DEF EndFiles, TxInv, CallerInv, ListPCs, Callers, Return
      <4> QED
        BY <4>1 DEF ListFiles, OpenFile, Seek, CloseFile, Install, Activate, FileEnds, Finish,
                    Restore, Delay
    <3>5. ~ListDirectory
      BY DEF ListDirectory, OpenDirectory, SkipContents, NextEntry, EndContents, AfterContents
    <3>6. ~Watch
      BY DEF Watch, WatchFails, AddWatch, Arm, BeginListen, TestListen, EnterPoll, WatchTimeout,
             ReadEvents, TransmitNewFile, EndEvents, Unarm
    <3> QED
      BY <3>1, <3>2, <3>3, <3>4, <3>5, <3>6 DEF Next, Program, Environment
  <2>2. pc \notin Over /\ disp = "default"
    BY <2>1 DEF Sigint, Killed, StopsTransmission, StopsWatch, Over
  <2> QED
    BY <2>2 DEF TxInv, NestInv, Current, InWatch
<1> QED
  BY <1>1, TxInvHolds, PTL DEF Spec, KilledOnlyBetween

-------------------------------------------------------------------------------
(* What follows the end of a list of files.                                *)

\* The report that ended a list stays in the state that both loops test, until the next
\* list begins or no transmission is left to begin.
EndInv ==
    /\ ~after
    /\ ended => state # "NORMAL" \/ pc \in Over \cup {"close"}
    /\ pc \in {"parse", "setup", "directory", "install", "sending"} => ~ended

LEMMA EndInvStep == ASSUME TxInv, EndInv, [Next]_vars PROVE EndInv'
<1> USE DEF EndInv, Over
<1>1. CASE Sigint
  BY <1>1 DEF Sigint, Killed, StopsTransmission, StopsWatch, list, history
<1>2. ASSUME NEW f \in NewFiles, Appear(f) PROVE EndInv'
  BY <1>2 DEF Appear, list
<1>3. CASE ParseOption \/ ParseLast \/ PcapFails \/ Close
  BY <1>3 DEF ParseOption, ParseLast, PcapFails, Close, history
<1>4. CASE Setup
  BY <1>4 DEF Setup, history
<1>5. CASE OpenFile \/ CloseFile \/ Delay
  BY <1>5 DEF OpenFile, CloseFile, Delay, history
<1>6. CASE EndFiles
  <2>1. pc = "next" /\ pc' = Return[caller] /\ UNCHANGED <<state, ended, after>>
    BY <1>6 DEF EndFiles, history
  <2>2. pc' \in {"close", "contents", "events"}
    BY <2>1 DEF TxInv, CallerInv, ListPCs, Callers, Return
  <2> QED
    BY <2>1, <2>2
<1>7. CASE Seek
  <2>1. pc = "again" /\ state = "NORMAL" /\ ~ended
    BY <1>7 DEF Seek, More
  <2> QED
    BY <1>7, <2>1 DEF Seek
<1>8. CASE Install
  BY <1>8 DEF Install, list
<1>9. CASE Activate \/ Finish
  BY <1>9 DEF Activate, Finish, list, history
<1>10. CASE Restore
  BY <1>10 DEF Restore, Engine!End
<1>11. CASE OpenDirectory \/ SkipContents
  BY <1>11 DEF OpenDirectory, SkipContents, AfterContents, list, history
<1>12. ASSUME NEW f \in Files, NextEntry(f) PROVE EndInv'
  BY <1>12 DEF NextEntry, history
<1>13. CASE EndContents
  BY <1>13 DEF EndContents, AfterContents, history
<1>14. CASE Arm \/ BeginListen \/ TestListen \/ EnterPoll \/ WatchTimeout \/ ReadEvents
            \/ EndEvents \/ Unarm
  BY <1>14 DEF Arm, BeginListen, TestListen, EnterPoll, WatchTimeout, ReadEvents, EndEvents,
               Unarm, list, history
<1>15. CASE TransmitNewFile
  BY <1>15 DEF TransmitNewFile
<1>16. CASE WatchFails \/ AddWatch
  <2>1. pc = "watch" /\ pc' \in {"aborted", "arm"} /\ UNCHANGED <<list, history>>
    BY <1>16 DEF WatchFails, AddWatch
  <2> QED
    BY <2>1 DEF list, history
<1>17. CASE UNCHANGED vars
  BY <1>17 DEF vars, list, history
<1> QED
  BY <1>1, <1>2, <1>3, <1>4, <1>5, <1>6, <1>7, <1>8, <1>9, <1>10, <1>11, <1>12, <1>13, <1>14,
     <1>15, <1>16, <1>17
  DEF Next, Program, Environment, ListFiles, ListDirectory, Watch, StreamEnds, FileEnds

\* After a stop, a timeout or an error no file and no retransmission of the same list is
\* begun (tx.c:259, 268, 312), for every command line and every behaviour of the user.
THEOREM NothingFollowsAnEnd == Spec => []NothingAfterEnd
<1>1. Init => EndInv
  BY DEF Init, EndInv
<1>2. EndInv => NothingAfterEnd
  BY DEF EndInv, NothingAfterEnd
<1> QED
  BY <1>1, <1>2, TxInvHolds, EndInvStep, PTL DEF Spec

-------------------------------------------------------------------------------
(* The types.                                                              *)

\* The fields of the arguments that the program's loops depend on.
FilesInv ==
    /\ args.files \in Seq(Files) /\ Len(args.files) <= FileMax
    /\ args.retransmit_count \in Int

\* No key has two meanings.
LEMMA KeysDiffer ==
    ASSUME NEW k
    PROVE  /\ k \in {"file", "verbose"} => k \notin Stored
           /\ k \in {"file", "verbose"} \cup Stored => k \notin DOMAIN Unsigned
           /\ k \in {"file", "verbose"} \cup Stored \cup DOMAIN Unsigned => k \notin DOMAIN Truth
           /\ k \in {"file", "verbose"} \cup Stored \cup DOMAIN Unsigned \cup DOMAIN Truth
              => k \notin DOMAIN SetFlag
           /\ k \in {"file", "verbose"} \cup Stored \cup DOMAIN Unsigned \cup DOMAIN Truth
                    \cup DOMAIN SetFlag => k \notin DOMAIN ClearFlag
BY DEF Stored, Unsigned, Truth, SetFlag, ClearFlag

LEMMA ParseOptFields ==
    ASSUME NEW a, DOMAIN a = DOMAIN TxDefaults, NEW opt \in Options
    PROVE  /\ ParseOpt(a, opt).files =
                  IF opt.key = "file" THEN Append(a.files, opt.value) ELSE a.files
           /\ ParseOpt(a, opt).retransmit_count =
                  IF opt.key = "retransmit_count" THEN opt.value ELSE a.retransmit_count
<1> DEFINE k == opt.key
           b == ParseOpt(a, opt)
           Fields == {"files", "retransmit_count"}
<1>1. k \in Keys
  BY TxAssumption
<1>2. "files" \in DOMAIN a /\ "retransmit_count" \in DOMAIN a
  BY DEF TxDefaults
\* A key that stores into one other field.
<1>3. ASSUME NEW j, j \notin Fields, NEW v, b = [a EXCEPT ![j] = v]
      PROVE  b.files = a.files /\ b.retransmit_count = a.retransmit_count
  BY <1>2, <1>3, Zenon
<1>4. CASE k = "file"
  <2>1. b = [a EXCEPT !.files = Append(@, opt.value)]
    BY <1>4, KeysDiffer, Zenon DEF ParseOpt
  <2> QED
    BY <1>2, <1>4, <2>1, Zenon
<1>5. CASE k = "verbose"
  <2>1. b = [a EXCEPT !["verbosity"] = a.verbosity + 1]
    BY <1>5, KeysDiffer, Zenon DEF ParseOpt
  <2>2. "verbosity" \notin Fields
    OBVIOUS
  <2> QED
    BY <1>3, <1>5, <2>1, <2>2, Zenon
<1>6. CASE k \in Stored
  <2>1. b = [a EXCEPT ![k] = opt.value] /\ k # "file" /\ k # "files"
    <3>1. k # "file" /\ k # "files" /\ k # "verbose"
      BY <1>6 DEF Stored
    <3> QED
      BY <1>6, <3>1, KeysDiffer, Zenon DEF ParseOpt
  <2> QED
    BY <1>2, <2>1, Zenon
<1>7. CASE k \in DOMAIN Unsigned
  <2>1. b = [a EXCEPT ![k] = opt.value % Unsigned[k]]
    BY <1>7, KeysDiffer, Zenon DEF ParseOpt
  <2>2. k \notin Fields /\ k # "file"
    BY <1>7 DEF Unsigned
  <2> QED
    BY <1>3, <2>1, <2>2, Zenon
<1>8. CASE k \in DOMAIN Truth
  <2>1. b = [a EXCEPT ![k] = Truth[k]]
    BY <1>8, KeysDiffer, Zenon DEF ParseOpt
  <2>2. k \notin Fields /\ k # "file"
    BY <1>8 DEF Truth
  <2> QED
    BY <1>3, <2>1, <2>2, Zenon
<1>9. CASE k \in DOMAIN SetFlag
  <2>1. b = [a EXCEPT ![SetFlag[k]] = a[SetFlag[k]] \cup {k}]
    BY <1>9, KeysDiffer, Zenon DEF ParseOpt
  <2>2. SetFlag[k] \notin Fields /\ k # "file" /\ k # "retransmit_count"
    BY <1>9 DEF SetFlag
  <2> QED
    BY <1>3, <2>1, <2>2, Zenon
<1>10. CASE k \in DOMAIN ClearFlag
  <2>1. b = [a EXCEPT ![ClearFlag[k]] = a[ClearFlag[k]] \ {k}]
    BY <1>10, KeysDiffer, Zenon DEF ParseOpt
  <2>2. ClearFlag[k] \notin Fields /\ k # "file" /\ k # "retransmit_count"
    BY <1>10 DEF ClearFlag
  <2> QED
    BY <1>3, <2>1, <2>2, Zenon
<1> QED
  BY <1>1, <1>4, <1>5, <1>6, <1>7, <1>8, <1>9, <1>10 DEF Keys

\* Only the parser touches the arguments.
LEMMA ArgsAreFixed ==
    ASSUME [Next]_vars PROVE ParseOption \/ ParseLast \/ UNCHANGED cli
<1>1. CASE Sigint \/ (\E f \in NewFiles : Appear(f)) \/ UNCHANGED vars
  BY <1>1 DEF Sigint, Appear, vars
<1>2. CASE PcapFails \/ Setup \/ Close
  BY <1>2 DEF PcapFails, Setup, Close
<1>3. CASE ListFiles \/ StreamEnds
  BY <1>3 DEF ListFiles, OpenFile, EndFiles, Seek, CloseFile, Install, Activate, FileEnds,
              StreamEnds, Finish, Restore, Delay
<1>4. CASE ListDirectory
  BY <1>4 DEF ListDirectory, OpenDirectory, SkipContents, NextEntry, EndContents
<1>5. CASE Watch
  BY <1>5 DEF Watch, WatchFails, AddWatch, Arm, BeginListen, TestListen, EnterPoll, WatchTimeout,
              ReadEvents, TransmitNewFile, EndEvents, Unarm
<1> QED
  BY <1>1, <1>2, <1>3, <1>4, <1>5 DEF Next, Program, Environment

LEMMA FilesInvStep == ASSUME ArgsInv, FilesInv, [Next]_vars PROVE FilesInv'
<1>1. CASE ParseOption
  <2>1. (Head(argv) \in Options /\ ~Rejected(args, Head(argv))) \/ args' = args
    BY <1>1 DEF ParseOption, ArgsInv
  <2>2. ASSUME Head(argv) \in Options, args' = ParseOpt(args, Head(argv)),
               ~Rejected(args, Head(argv))
        PROVE  FilesInv'
    <3> DEFINE opt == Head(argv)
    <3>1. /\ opt.key = "file" => opt.value \in Files
          /\ opt.key = "retransmit_count" => opt.value \in Int
      BY <2>2, TxAssumption
    <3>2. opt.key = "file" => Len(args.files) < FileMax
      BY <2>2, TableAssumption DEF Rejected, Full, FilesInv
    <3>3. /\ args'.files = IF opt.key = "file" THEN Append(args.files, opt.value) ELSE args.files
          /\ args'.retransmit_count =
                  IF opt.key = "retransmit_count" THEN opt.value ELSE args.retransmit_count
      BY <2>2, ParseOptFields DEF ArgsInv
    <3> HIDE DEF opt
    <3> QED
      BY <3>1, <3>2, <3>3, TableAssumption DEF FilesInv
  <2> QED
    BY <1>1, <2>1, <2>2 DEF ParseOption, FilesInv, ArgsInv
<1>2. CASE ParseLast
  <2>1. args' = ParseEnd(args, Directories) /\ "files" \in DOMAIN args
        /\ "retransmit_count" \in DOMAIN args
    BY <1>2 DEF ParseLast, ArgsInv, TxDefaults
  <2>2. args'.files = args.files /\ args'.retransmit_count = args.retransmit_count
    BY <2>1 DEF ParseEnd
  <2> QED
    BY <2>2 DEF FilesInv
<1>3. CASE UNCHANGED cli
  BY <1>3 DEF FilesInv, cli
<1> QED
  BY <1>1, <1>2, <1>3, ArgsAreFixed

\* A file of the list is open.
Handling == pc \in {"again", "install", "sending", "delay"} /\ caller # "stream"

\* TypeOK, part by part: what depends on the handlers of SIGINT, on the transmission, on
\* the list of files, on the directory, and the history.
SignalType ==
    /\ disp \in {"default", "tx", "watch"}
    /\ saved \in Seq({"default", "watch"}) /\ Len(saved) <= 2
EngineType ==
    /\ phase \in Engine!Phases /\ outcome \in States
    /\ heard \in BOOLEAN /\ whole \in BOOLEAN
ListType ==
    /\ caller \in {"none", "stream"} \cup DOMAIN Return
    /\ queue \in Seq(Files) /\ count \in Int /\ state \in States
    /\ Handling => queue # << >>
DirType ==
    /\ entries \subseteq present /\ present \subseteq Files
    /\ announced \in Seq(NewFiles) /\ batch \in Seq(NewFiles)
    /\ watched \in BOOLEAN /\ listening \in BOOLEAN
HistoryType ==
    /\ stops \in 0..MaxStops /\ sent \in [Files -> 0..SentMax]
    /\ clean \in BOOLEAN /\ ended \in BOOLEAN /\ after \in BOOLEAN

TypeInv == FilesInv /\ SignalType /\ EngineType /\ ListType /\ DirType /\ HistoryType

LEMMA SignalTypeStep ==
    ASSUME TxInv, SignalType, [Next]_vars PROVE SignalType'
<1>1. CASE UNCHANGED signal
  BY <1>1 DEF SignalType, signal
<1>2. CASE Install \/ Arm
  <2>1. /\ pc \in {"install", "arm"} /\ disp' \in {"tx", "watch"}
        /\ saved' = Append(saved, disp)
    BY <1>2 DEF Install, Arm
  <2>2. disp = Current /\ saved = Outer
    BY <2>1 DEF TxInv, NestInv, Over
  <2>3. disp \in {"default", "watch"} /\ Len(saved) <= 1
    BY <2>2 DEF Current, Outer
  <2> QED
    BY <2>1, <2>3 DEF SignalType
<1>3. CASE Restore \/ Unarm
  <2>1. /\ pc \in {"sending", "unarm"} /\ disp' = Last(saved) /\ saved' = Front(saved)
    BY <1>3 DEF Restore, Unarm, Restored
  <2>2. saved # << >>
    <3>1. CASE pc = "sending"
      <4>1. saved = Append(Outer, Current)
        BY <3>1 DEF TxInv, NestInv, Over
      <4>2. Outer \in Seq({"default", "watch"})
        <5>1. << >> \in Seq({"default", "watch"}) /\ <<"default">> \in Seq({"default", "watch"})
          OBVIOUS
        <5> QED
          BY <5>1 DEF Outer
      <4> QED
        BY <4>1, <4>2
    <3>2. CASE pc = "unarm"
      BY <3>2 DEF TxInv, NestInv, Over, Outer, InWatch
    <3> QED
      BY <2>1, <3>1, <3>2
  <2>3. Last(saved) \in {"default", "watch"}
    BY <2>2 DEF SignalType, Last
  <2>4. Front(saved) \in Seq({"default", "watch"}) /\ Len(Front(saved)) = Len(saved) - 1
    <3> DEFINE S == {"default", "watch"}
    <3>1. saved \in Seq(S) /\ Len(saved) \in Nat \ {0}
      BY <2>2, EmptySeq, LenProperties DEF SignalType
    <3>2. Front(saved) = SubSeq(saved, 1, Len(saved) - 1)
      BY DEF Front
    <3> HIDE DEF S
    <3>3. /\ SubSeq(saved, 1, Len(saved) - 1) \in Seq(S)
          /\ Len(SubSeq(saved, 1, Len(saved) - 1)) = Len(saved) - 1
      <4> DEFINE n == Len(saved) - 1
      <4>1. n \in Nat /\ \A i \in 1..n : saved[i] \in S
        BY <3>1
      <4> HIDE DEF n
      <4>2. /\ SubSeq(saved, 1, n) \in Seq(S)
            /\ Len(SubSeq(saved, 1, n)) = IF 1 <= n THEN n - 1 + 1 ELSE 0
        BY <4>1, SubSeqProperties
      <4>3. Len(SubSeq(saved, 1, n)) = n
        BY <4>1, <4>2
      <4> QED
        BY <4>2, <4>3 DEF n
    <3> QED
      BY <3>2, <3>3 DEF S
  <2> QED
    BY <2>1, <2>2, <2>3, <2>4 DEF SignalType
<1>4. CASE Sigint \/ (\E f \in NewFiles : Appear(f)) \/ ParseOption \/ ParseLast \/ PcapFails
           \/ Setup \/ Close \/ UNCHANGED vars
  BY <1>1, <1>4 DEF Sigint, Appear, ParseOption, ParseLast, PcapFails, Setup, Close, vars
<1>5. CASE ListFiles \/ StreamEnds
  BY <1>1, <1>2, <1>3, <1>5 DEF ListFiles, OpenFile, EndFiles, Seek, CloseFile, Activate,
              FileEnds, StreamEnds, Finish, Delay
<1>6. CASE ListDirectory
  BY <1>1, <1>6 DEF ListDirectory, OpenDirectory, SkipContents, NextEntry, EndContents
<1>7. CASE Watch
  BY <1>1, <1>2, <1>3, <1>7 DEF Watch, WatchFails, AddWatch, BeginListen, TestListen, EnterPoll,
              WatchTimeout, ReadEvents, TransmitNewFile, EndEvents
<1> QED
  BY <1>4, <1>5, <1>6, <1>7 DEF Next, Program, Environment

LEMMA EngineTypeStep ==
    ASSUME EngineType, [Next]_vars PROVE EngineType'
<1>1. CASE UNCHANGED engine
  BY <1>1 DEF EngineType, engine
<1>2. CASE Engine!Begin \/ Engine!Activate \/ Engine!Finish \/ Engine!End
  BY <1>2 DEF EngineType, Engine!Begin, Engine!Activate, Engine!Finish, Engine!End,
              Engine!Phases, States
<1>3. CASE Engine!Stop
  BY <1>3 DEF EngineType, Engine!Stop
<1>4. CASE Sigint
  BY <1>1, <1>3, <1>4 DEF Sigint, Killed, StopsTransmission, StopsWatch
<1>5. CASE (\E f \in NewFiles : Appear(f)) \/ ParseOption \/ ParseLast \/ PcapFails
           \/ Setup \/ Close \/ UNCHANGED vars
  BY <1>1, <1>5 DEF Appear, ParseOption, ParseLast, PcapFails, Setup, Close, vars
<1>6. CASE ListFiles \/ StreamEnds
  BY <1>1, <1>2, <1>6 DEF ListFiles, OpenFile, EndFiles, Seek, CloseFile, Install, Activate,
              FileEnds, StreamEnds, Finish, Restore, Delay
<1>7. CASE ListDirectory
  BY <1>1, <1>7 DEF ListDirectory, OpenDirectory, SkipContents, NextEntry, EndContents
<1>8. CASE Watch
  BY <1>1, <1>8 DEF Watch, WatchFails, AddWatch, Arm, BeginListen, TestListen, EnterPoll,
              WatchTimeout, ReadEvents, TransmitNewFile, EndEvents, Unarm
<1> QED
  BY <1>4, <1>5, <1>6, <1>7, <1>8 DEF Next, Program, Environment

LEMMA ListTypeStep ==
    ASSUME TxInv, FilesInv, EngineType, ListType, DirType, [Next]_vars PROVE ListType'
<1> USE DEF ListType
<1>1. ASSUME UNCHANGED list, pc' # pc => pc' \notin {"again", "install", "sending", "delay"}
      PROVE  ListType'
  BY <1>1 DEF list, Handling
<1>2. CASE Setup
  <2>1. args.mode \in Modes
    BY <1>2 DEF TxInv, ArgsInv, Setup, Over
  <2>2. /\ caller' \in {"stream", "list", "none"} /\ UNCHANGED <<count, state>>
        /\ pc' = "install" => caller' = "stream"
        /\ pc' \in {"install", "next", "directory"}
    BY <1>2, <2>1 DEF Setup, Modes
  <2>3. queue' \in Seq(Files)
    BY <1>2 DEF Setup, FilesInv
  <2> QED
    BY <2>2, <2>3 DEF Return, Handling
<1>3. CASE OpenFile
  <2>1. CASE pc' = "next"
    <3>1. UNCHANGED <<caller, state, count>> /\ queue' = Tail(queue) /\ queue # << >>
      BY <1>3, <2>1 DEF OpenFile
    <3> QED
      BY <2>1, <3>1 DEF Handling
  <2>2. CASE pc' # "next"
    <3>1. UNCHANGED <<caller, state, queue>> /\ queue # << >> /\ count' = args.retransmit_count
      BY <1>3, <2>2 DEF OpenFile
    <3> QED
      BY <3>1 DEF FilesInv
  <2> QED
    BY <2>1, <2>2
<1>4. CASE EndFiles
  <2>1. /\ pc' \in {"close", "contents", "events"}
    BY <1>4 DEF EndFiles, TxInv, CallerInv, ListPCs, Callers, Return
  <2>2. UNCHANGED <<count, state>> /\ queue' = << >> /\ caller' \in {caller, "none"}
    BY <1>4 DEF EndFiles
  <2> QED
    BY <2>1, <2>2 DEF Handling
<1>5. CASE Seek
  <2>1. UNCHANGED <<caller, queue>> /\ pc = "again" /\ caller # "stream"
    BY <1>5 DEF Seek, TxInv, CallerInv
  <2>2. count' \in Int /\ state' \in States
    BY <1>5 DEF Seek, Less, States
  <2> QED
    BY <2>1, <2>2 DEF Handling
<1>6. CASE CloseFile
  <2>1. /\ pc = "again" /\ pc' = "next" /\ UNCHANGED <<caller, state, count>>
        /\ queue' = Tail(queue)
    BY <1>6 DEF CloseFile
  <2>2. queue # << >>
    BY <2>1 DEF TxInv, CallerInv, Handling
  <2> QED
    BY <2>1, <2>2 DEF Handling
<1>7. CASE Restore
  <2>1. UNCHANGED <<caller, queue, count>> /\ state' \in {state, outcome} /\ pc = "sending"
    BY <1>7 DEF Restore
  <2> QED
    BY <1>7, <2>1 DEF EngineType, Handling, Restore
<1>8. CASE Install \/ Delay
  <2>1. /\ UNCHANGED <<caller, queue, state>> /\ pc \in {"install", "delay"}
        /\ count' \in {count, Less(count)}
    BY <1>8 DEF Install, Delay, list
  <2> QED
    BY <2>1 DEF Less, Handling
<1>9. CASE OpenDirectory
  BY <1>9 DEF OpenDirectory, Return, States, Handling
<1>10. ASSUME NEW f \in Files, NextEntry(f) PROVE ListType'
  <2>1. UNCHANGED <<caller, count, state>> /\ queue' \in {queue, <<f>>} /\ pc' \in {"contents", "next"}
    BY <1>10 DEF NextEntry
  <2>2. <<f>> \in Seq(Files)
    OBVIOUS
  <2> QED
    BY <2>1, <2>2 DEF Handling
<1>11. CASE EndContents
  BY <1>11 DEF EndContents, AfterContents, Handling
<1>12. CASE TransmitNewFile
  <2>1. Head(batch) \in NewFiles
    BY <1>12 DEF TransmitNewFile, DirType
  <2>2. Head(batch) \in Files
    BY <2>1, TxAssumption
  <2>3. <<Head(batch)>> \in Seq(Files)
    BY <2>2
  <2> QED
    BY <1>12, <2>3 DEF TransmitNewFile, Return, States, Handling
<1>13. CASE Sigint \/ (\E f \in NewFiles : Appear(f)) \/ UNCHANGED vars
  BY <1>1, <1>13 DEF Sigint, Killed, StopsTransmission, StopsWatch, Appear, vars
<1>14. CASE ParseOption \/ ParseLast \/ PcapFails \/ Close
  BY <1>1, <1>14 DEF ParseOption, ParseLast, PcapFails, Close
<1>15. CASE Activate \/ Finish \/ SkipContents
  BY <1>1, <1>15 DEF Activate, Finish, SkipContents, AfterContents
<1>16. CASE Watch
  BY <1>1, <1>12, <1>16 DEF Watch, WatchFails, AddWatch, Arm, BeginListen, TestListen, EnterPoll,
              WatchTimeout, ReadEvents, EndEvents, Unarm
<1> QED
  BY <1>2, <1>3, <1>4, <1>5, <1>6, <1>7, <1>8, <1>9, <1>10, <1>11, <1>13, <1>14, <1>15, <1>16
  DEF Next, Program, Environment, ListFiles, ListDirectory, FileEnds, StreamEnds

LEMMA DirTypeStep ==
    ASSUME DirType, [Next]_vars PROVE DirType'
<1> USE DEF DirType
<1>1. CASE UNCHANGED dir
  BY <1>1 DEF dir
<1>2. CASE Sigint
  BY <1>2 DEF Sigint, Killed, StopsTransmission, StopsWatch
<1>3. ASSUME NEW f \in NewFiles, Appear(f) PROVE DirType'
  <2>1. f \in Files
    BY TxAssumption
  <2>2. present' = present \cup {f} /\ entries' \subseteq entries \cup {f}
    BY <1>3 DEF Appear
  <2>3. announced' \in {announced, Append(announced, f)}
        /\ UNCHANGED <<watched, listening, batch>>
    BY <1>3 DEF Appear
  <2> QED
    BY <2>1, <2>2, <2>3
<1>4. CASE ParseOption \/ ParseLast \/ PcapFails \/ Setup \/ Close \/ UNCHANGED vars
  BY <1>1, <1>4 DEF ParseOption, ParseLast, PcapFails, Setup, Close, vars
<1>5. CASE ListFiles \/ StreamEnds
  BY <1>1, <1>5 DEF ListFiles, OpenFile, EndFiles, Seek, CloseFile, Install, Activate,
              FileEnds, StreamEnds, Finish, Restore, Delay
<1>6. CASE OpenDirectory
  BY <1>6 DEF OpenDirectory
<1>7. ASSUME NEW f \in Files, NextEntry(f) PROVE DirType'
  BY <1>7 DEF NextEntry
<1>8. CASE SkipContents \/ EndContents
  BY <1>1, <1>8 DEF SkipContents, EndContents
<1>9. CASE ReadEvents
  <2> DEFINE n == IF Len(announced) < BufferMax THEN Len(announced) ELSE BufferMax
  <2>1. n \in 0..Len(announced)
    BY TxAssumption
  <2>2. /\ batch' = SubSeq(announced, 1, n)
        /\ announced' = SubSeq(announced, n + 1, Len(announced))
        /\ UNCHANGED <<present, entries, watched, listening>>
    BY <1>9 DEF ReadEvents
  <2> HIDE DEF n
  <2>3. /\ SubSeq(announced, 1, n) \in Seq(NewFiles)
        /\ SubSeq(announced, n + 1, Len(announced)) \in Seq(NewFiles)
    BY <2>1
  <2> QED
    BY <2>2, <2>3
<1>10. CASE TransmitNewFile
  <2>1. Tail(batch) \in Seq(NewFiles)
    BY <1>10 DEF TransmitNewFile
  <2> QED
    BY <1>10, <2>1 DEF TransmitNewFile
<1>11. CASE AddWatch \/ BeginListen \/ WatchTimeout \/ Unarm
  BY <1>11 DEF AddWatch, BeginListen, WatchTimeout, Unarm
<1>12. CASE WatchFails \/ Arm \/ TestListen \/ EnterPoll \/ EndEvents
  BY <1>1, <1>12 DEF WatchFails, Arm, TestListen, EnterPoll, EndEvents
<1> QED
  BY <1>2, <1>3, <1>4, <1>5, <1>6, <1>7, <1>8, <1>9, <1>10, <1>11, <1>12
  DEF Next, Program, Environment, ListDirectory, Watch

LEMMA HistoryTypeStep ==
    ASSUME TxInv, ListType, HistoryType, [Next]_vars PROVE HistoryType'
<1> USE DEF HistoryType
<1>1. CASE UNCHANGED <<stops, history>>
  BY <1>1 DEF history
<1>2. CASE Sigint
  BY <1>2, TxAssumption DEF Sigint, history
<1>3. CASE (\E f \in NewFiles : Appear(f)) \/ UNCHANGED vars
  BY <1>1, <1>3 DEF Appear, vars, history
<1>4. CASE Seek
  BY <1>4 DEF Seek
<1>5. CASE Install
  BY <1>5 DEF Install
<1>6. CASE Restore
  <2>1. UNCHANGED <<stops, after>> /\ clean' \in BOOLEAN /\ ended' \in BOOLEAN
    BY <1>6 DEF Restore
  <2>2. CASE caller = "stream"
    BY <1>6, <2>1, <2>2 DEF Restore
  <2>3. CASE caller # "stream"
    <3> DEFINE g == Head(queue)
    <3>1. g \in Files /\ sent[g] \in 0..SentMax
      BY <1>6, <2>3 DEF Restore, Handling, ListType
    <3>2. sent' = [sent EXCEPT ![g] = IF whole /\ @ < SentMax THEN @ + 1 ELSE @]
      BY <1>6, <2>3 DEF Restore
    <3> HIDE DEF g
    <3> QED
      BY <2>1, <3>1, <3>2, TxAssumption
  <2> QED
    BY <2>2, <2>3
<1>7. CASE SkipContents
  BY <1>7 DEF SkipContents
<1>8. CASE TransmitNewFile
  BY <1>8 DEF TransmitNewFile
<1>9. CASE ParseOption \/ ParseLast \/ PcapFails \/ Setup \/ Close
  BY <1>1, <1>9 DEF ParseOption, ParseLast, PcapFails, Setup, Close
<1>10. CASE OpenFile \/ EndFiles \/ CloseFile \/ Activate \/ Finish \/ Delay
  BY <1>1, <1>10 DEF OpenFile, EndFiles, CloseFile, Activate, Finish, Delay
<1>11. CASE OpenDirectory \/ (\E f \in Files : NextEntry(f)) \/ EndContents
  BY <1>1, <1>11 DEF OpenDirectory, NextEntry, EndContents
<1>12. CASE Watch
  BY <1>1, <1>8, <1>12 DEF Watch, WatchFails, AddWatch, Arm, BeginListen, TestListen, EnterPoll,
              WatchTimeout, ReadEvents, EndEvents, Unarm
<1> QED
  BY <1>2, <1>3, <1>4, <1>5, <1>6, <1>7, <1>8, <1>9, <1>10, <1>11, <1>12
  DEF Next, Program, Environment, ListFiles, ListDirectory, FileEnds, StreamEnds

LEMMA TypeInvHolds == Spec => []TypeInv
<1>1. Init => TypeInv
  <2> SUFFICES ASSUME Init PROVE TypeInv
    OBVIOUS
  <2>1. FilesInv
    BY TableAssumption DEF Init, FilesInv, TxDefaults
  <2>2. SignalType
    BY DEF Init, SignalType
  <2>3. EngineType
    BY DEF Init, EngineType, Engine!Init, Engine!Phases, States
  <2>4. ListType
    BY DEF Init, ListType, Handling, States
  <2>5. DirType
    <3>1. present = Contents /\ entries = {}
          /\ watched \in BOOLEAN /\ listening \in BOOLEAN
      BY DEF Init
    <3>2. announced = << >> /\ batch = << >>
      BY DEF Init
    <3>3. Contents \subseteq Files
      BY TxAssumption
    <3>4. << >> \in Seq(NewFiles)
      OBVIOUS
    <3> QED
      BY <3>1, <3>2, <3>3, <3>4 DEF DirType
  <2>6. HistoryType
    <3>1. 0 \in 0..MaxStops /\ 0 \in 0..SentMax
      BY TxAssumption
    <3> QED
      BY <3>1 DEF Init, HistoryType
  <2> QED
    BY <2>1, <2>2, <2>3, <2>4, <2>5, <2>6 DEF TypeInv
<1>2. TxInv /\ TypeInv /\ [Next]_vars => TypeInv'
  BY FilesInvStep, SignalTypeStep, EngineTypeStep, ListTypeStep, DirTypeStep, HistoryTypeStep
  DEF TypeInv, TxInv
<1> QED
  BY <1>1, <1>2, TxInvHolds, PTL DEF Spec

\* Type correctness, for every command line: the table of files is never overrun (cli.c),
\* and the dispositions of SIGINT nest two deep.
THEOREM TxTypeOK == Spec => []TypeOK
<1>1. TypeInv => TypeOK
  BY DEF TypeInv, FilesInv, SignalType, EngineType, ListType, DirType, HistoryType, TypeOK
<1> QED
  BY <1>1, TypeInvHolds, PTL

-------------------------------------------------------------------------------
(* What an undisturbed run sends.  Every file waits in one line: those that *)
(* transmit_files was given, those the watch has read and those it has not. *)

\* The files that are still to be handled, in order; the first one is open during Open.
Line == queue \o batch \o announced
Open == pc \in {"again", "install", "sending", "delay"}

\* Before the first file is looked for, nothing has been sent.
Early == pc \in {"parse", "setup", "directory"}
Unwatched == batch = << >> /\ announced = << >> /\ watched = FALSE /\ listening = FALSE
FreshInv ==
    /\ Contents \subseteq present
    /\ Early => /\ Unwatched /\ queue = << >> /\ entries = {} /\ due = {}
                /\ clean /\ state = "NORMAL" /\ \A f \in Files : sent[f] = 0

\* A transmission that reports NORMAL has read its source to the end.
WholeInv == phase = "done" /\ outcome = "NORMAL" => whole

\* The runs that EverythingSent speaks of, as far as they have come.
Undisturbed ==
    /\ pc \notin {"parse", "usage", "aborted"}
    /\ args.mode # "STREAM" /\ stops = 0 /\ clean
    /\ args.retransmit_count \in 0..(SentMax - 1) /\ IsInjective(args.files)

\* Which of the three sources of files is at work, and what that says of the line.
PlaceInv ==
    /\ due \subseteq NewFiles \cap present
    /\ args.mode = "FILE" => /\ pc \in {"setup", "close", "exited"} \cup ListPCs
                             /\ caller \in {"none", "list"} /\ Unwatched /\ due = {}
    /\ args.mode = "DIRECTORY" => caller \notin {"list", "stream"} /\ PathResolves
    /\ caller = "contents" \/ pc = "watch" => Unwatched /\ due = {}
    /\ caller = "contents" => pc \in ListPCs \cup {"contents"}
    /\ caller # "contents" => entries = {}
    /\ queue # << >> => pc \in ListPCs
    /\ batch # << >> => pc = "events" \/ caller = "watch"
    /\ watched => pc \in WatchPCs \cup {"arm", "unarm"} \/ caller = "watch"
    /\ pc \in {"enter", "poll", "events"} \/ caller = "watch" => listening
    /\ pc \in {"arm", "begin"} \/ listening \/ due \cap Range(announced) = {}
    /\ listening => pc \in WatchPCs \cup ListPCs
    /\ state = "NORMAL"

\* Each file is in line once, and has not been sent.
LineInv ==
    /\ IsInjective(Line)
    /\ \A i \in DOMAIN Line : Line[i] \notin entries /\ (i > 1 \/ ~Open => sent[Line[i]] = 0)
    /\ \A f \in entries : sent[f] = 0
    /\ args.mode = "DIRECTORY" => /\ \A i \in DOMAIN Line : Line[i] \in present
                                  /\ \A f \in NewFiles \ present : sent[f] = 0

\* How far the open file has come.
CountInv ==
    Open => /\ count \in -1..args.retransmit_count /\ (pc # "again" => count >= 0)
            /\ sent[Head(queue)] =
                  args.retransmit_count - count + (IF pc = "delay" THEN 1 ELSE 0)

\* What is no longer in line has been sent.
DoneInv ==
    \A f \in Given : f \in Range(Line) \/ f \in entries \/ sent[f] = args.retransmit_count + 1

SentInv == Undisturbed => PlaceInv /\ (~Early => LineInv /\ CountInv /\ DoneInv)

LEMMA WholeInvStep == ASSUME WholeInv, [Next]_vars PROVE WholeInv'
<1>1. CASE UNCHANGED engine
  BY <1>1 DEF WholeInv, engine
<1>2. CASE Engine!Begin \/ Engine!Activate \/ Engine!Finish \/ Engine!End
  BY <1>2 DEF WholeInv, Engine!Begin, Engine!Activate, Engine!Finish, Engine!End, Engine!Reports
<1>3. CASE Engine!Stop
  BY <1>3 DEF WholeInv, Engine!Stop
<1>4. CASE Sigint
  BY <1>1, <1>3, <1>4 DEF Sigint, Killed, StopsTransmission, StopsWatch
<1>5. CASE (\E f \in NewFiles : Appear(f)) \/ ParseOption \/ ParseLast \/ PcapFails
           \/ Setup \/ Close \/ UNCHANGED vars
  BY <1>1, <1>5 DEF Appear, ParseOption, ParseLast, PcapFails, Setup, Close, vars
<1>6. CASE ListFiles \/ StreamEnds
  BY <1>1, <1>2, <1>6 DEF ListFiles, OpenFile, EndFiles, Seek, CloseFile, Install, Activate,
              FileEnds, StreamEnds, Finish, Restore, Delay
<1>7. CASE ListDirectory
  BY <1>1, <1>7 DEF ListDirectory, OpenDirectory, SkipContents, NextEntry, EndContents
<1>8. CASE Watch
  BY <1>1, <1>8 DEF Watch, WatchFails, AddWatch, Arm, BeginListen, TestListen, EnterPoll,
              WatchTimeout, ReadEvents, TransmitNewFile, EndEvents, Unarm
<1> QED
  BY <1>4, <1>5, <1>6, <1>7, <1>8 DEF Next, Program, Environment

LEMMA FreshInvStep == ASSUME TxInv, FreshInv, [Next]_vars PROVE FreshInv'
<1> USE DEF FreshInv
<1>1. ASSUME Contents \subseteq present', ~Early' PROVE FreshInv'
  BY <1>1
<1>2. CASE Sigint
  BY <1>2 DEF Sigint, Killed, StopsTransmission, StopsWatch, Early, Unwatched, list, history
<1>3. ASSUME NEW f \in NewFiles, Appear(f) PROVE FreshInv'
  <2>1. pc' = pc /\ present' = present \cup {f} /\ UNCHANGED <<queue, state, listening, sent, clean>>
    BY <1>3 DEF Appear, list
  <2>2. CASE Early
    <3>1. caller # "contents" /\ watched = FALSE
      BY <2>2 DEF TxInv, CallerInv, Early, Unwatched
    <3>2. UNCHANGED <<announced, due, entries, watched, batch>>
      BY <1>3, <3>1 DEF Appear
    <3> QED
      BY <2>1, <3>2 DEF Early, Unwatched
  <2> QED
    BY <1>1, <2>1, <2>2 DEF Early
<1>4. CASE ParseOption \/ ParseLast \/ PcapFails \/ Close
  BY <1>4 DEF ParseOption, ParseLast, PcapFails, Close, Early, Unwatched, list, dir, history
<1>5. CASE Setup
  <2>1. args.mode \in Modes
    BY <1>5 DEF TxInv, ArgsInv, Setup, Over
  <2>2. Early /\ UNCHANGED <<state, dir, history>>
    BY <1>5 DEF Setup, Early
  <2>3. pc' = "directory" => queue' = << >>
    BY <1>5, <2>1 DEF Setup, Modes
  <2>4. pc' \in {"install", "next", "directory"}
    BY <1>5, <2>1 DEF Setup, Modes
  <2> QED
    BY <2>2, <2>3, <2>4 DEF Early, Unwatched, dir, history
<1>6. CASE ListFiles \/ StreamEnds
  <2>1. UNCHANGED present
    BY <1>6 DEF ListFiles, OpenFile, EndFiles, Seek, CloseFile, Install, Activate,
                FileEnds, StreamEnds, Finish, Restore, Delay, dir
  <2>2. ~Early'
    <3>1. EndFiles => pc' \in {"close", "contents", "events"}
      BY DEF EndFiles, TxInv, CallerInv, ListPCs, Callers, Return
    <3> QED
      BY <1>6, <3>1 DEF ListFiles, OpenFile, Seek, CloseFile, Install, Activate,
                FileEnds, StreamEnds, Finish, Restore, Delay, Early
  <2> QED
    BY <1>1, <2>1, <2>2
<1>7. CASE ListDirectory
  <2>1. UNCHANGED present
    BY <1>7 DEF ListDirectory, OpenDirectory, SkipContents, NextEntry, EndContents, dir
  <2>2. ~Early'
    BY <1>7 DEF ListDirectory, OpenDirectory, SkipContents, NextEntry, EndContents, AfterContents,
                Early
  <2> QED
    BY <1>1, <2>1, <2>2
<1>8. CASE Watch
  <2>1. UNCHANGED present
    BY <1>8 DEF Watch, WatchFails, AddWatch, Arm, BeginListen, TestListen, EnterPoll, WatchTimeout,
                ReadEvents, TransmitNewFile, EndEvents, Unarm, dir
  <2>2. ~Early'
    BY <1>8 DEF Watch, WatchFails, AddWatch, Arm, BeginListen, TestListen, EnterPoll, WatchTimeout,
                ReadEvents, TransmitNewFile, EndEvents, Unarm, Early
  <2> QED
    BY <1>1, <2>1, <2>2
<1>9. CASE UNCHANGED vars
  BY <1>9 DEF vars, list, dir, history, Early, Unwatched
<1> QED
  BY <1>2, <1>3, <1>4, <1>5, <1>6, <1>7, <1>8, <1>9 DEF Next, Program, Environment

\* An undisturbed run was undisturbed before, once its command line was parsed.
LEMMA Before ==
    ASSUME TxInv, TypeInv, FreshInv, [Next]_vars, Undisturbed', ~ParseLast
    PROVE  Undisturbed /\ UNCHANGED <<args, stops>>
<1>1. UNCHANGED stops
  <2>1. CASE Sigint
    <3>1. stops' = stops + 1 /\ stops \in Nat
      BY <2>1 DEF Sigint, TypeInv, HistoryType
    <3> QED
      BY <3>1 DEF Undisturbed
  <2>2. CASE (\E f \in NewFiles : Appear(f)) \/ UNCHANGED vars
    BY <2>2 DEF Appear, vars
  <2>3. CASE ParseOption \/ ParseLast \/ PcapFails \/ Setup \/ Close
    BY <2>3 DEF ParseOption, ParseLast, PcapFails, Setup, Close
  <2>4. CASE ListFiles \/ StreamEnds
    BY <2>4 DEF ListFiles, OpenFile, EndFiles, Seek, CloseFile, Install, Activate, FileEnds,
                StreamEnds, Finish, Restore, Delay
  <2>5. CASE ListDirectory
    BY <2>5 DEF ListDirectory, OpenDirectory, SkipContents, NextEntry, EndContents
  <2>6. CASE Watch
    BY <2>6 DEF Watch, WatchFails, AddWatch, Arm, BeginListen, TestListen, EnterPoll, WatchTimeout,
                ReadEvents, TransmitNewFile, EndEvents, Unarm
  <2> QED
    BY <2>1, <2>2, <2>3, <2>4, <2>5, <2>6 DEF Next, Program, Environment
<1>2. ~ParseOption
  BY DEF ParseOption, Undisturbed
<1>3. UNCHANGED cli
  BY <1>2, ArgsAreFixed
<1>4. pc \notin {"parse", "usage", "aborted"} /\ clean
  <2>1. CASE Sigint
    BY <1>1, <2>1 DEF Sigint, TypeInv, HistoryType
  <2>2. CASE (\E f \in NewFiles : Appear(f)) \/ UNCHANGED vars
    BY <2>2 DEF Appear, vars, history, Undisturbed
  <2>3. CASE PcapFails \/ Setup \/ Close
    BY <2>3 DEF PcapFails, Setup, Close, history, Undisturbed
  <2>4. CASE ListFiles \/ StreamEnds
    BY <2>4 DEF ListFiles, OpenFile, EndFiles, Seek, CloseFile, Install, Activate, FileEnds,
                StreamEnds, Finish, Restore, Delay, history, Undisturbed
  <2>5. CASE OpenDirectory \/ (\E f \in Files : NextEntry(f)) \/ EndContents
    BY <2>5 DEF OpenDirectory, NextEntry, EndContents, history, Undisturbed
  <2>6. CASE SkipContents
    BY <2>6 DEF SkipContents, FreshInv, Early
  <2>7. CASE Watch
    BY <2>7 DEF Watch, WatchFails, AddWatch, Arm, BeginListen, TestListen, EnterPoll, WatchTimeout,
                ReadEvents, TransmitNewFile, EndEvents, Unarm, history, Undisturbed
  <2> QED
    BY <1>2, <2>1, <2>2, <2>3, <2>4, <2>5, <2>6, <2>7
    DEF Next, Program, Environment, ListDirectory
<1> QED
  BY <1>1, <1>3, <1>4 DEF Undisturbed, cli

LEMMA NotOver == Next => pc \notin Over
<1>1. (\E f \in NewFiles : Appear(f)) \/ Sigint => pc \notin Over
  BY DEF Sigint, Appear
<1>2. ParseOption \/ ParseLast \/ PcapFails \/ Setup \/ Close => pc \notin Over
  BY DEF ParseOption, ParseLast, PcapFails, Setup, Close, Over
<1>3. ListFiles \/ StreamEnds => pc \notin Over
  BY DEF ListFiles, OpenFile, EndFiles, Seek, CloseFile, Install, Activate, FileEnds, StreamEnds,
         Finish, Restore, Delay, Over
<1>4. ListDirectory => pc \notin Over
  BY DEF ListDirectory, OpenDirectory, SkipContents, NextEntry, EndContents, Over
<1>5. Watch => pc \notin Over
  BY DEF Watch, WatchFails, AddWatch, Arm, BeginListen, TestListen, EnterPoll, WatchTimeout,
         ReadEvents, TransmitNewFile, EndEvents, Unarm, Over
<1> QED
  BY <1>1, <1>2, <1>3, <1>4, <1>5 DEF Next, Program, Environment

\* The steps of an undisturbed run, with nothing of the parser and no stop.
LEMMA UndisturbedSteps ==
    ASSUME TxInv, TypeInv, Undisturbed, Undisturbed', Next, UNCHANGED <<args, stops>>
    PROVE  /\ args.mode \in {"FILE", "DIRECTORY"} /\ pc \notin Over \cup {"parse"}
           /\ \/ Setup \/ Close \/ ListFiles \/ ListDirectory \/ Watch \/ StreamEnds
              \/ \E f \in NewFiles : Appear(f)
<1>1. pc \notin Over \cup {"parse"}
  BY NotOver DEF Undisturbed
<1>2. args.mode \in {"FILE", "DIRECTORY"}
  BY <1>1 DEF TxInv, ArgsInv, Modes, Undisturbed
<1>3. ~Sigint
  BY DEF Sigint, TypeInv, HistoryType
<1>4. ~ParseOption /\ ~ParseLast
  BY <1>1 DEF ParseOption, ParseLast
<1>5. ~PcapFails
  BY DEF PcapFails, Undisturbed
<1> QED
  BY <1>1, <1>2, <1>3, <1>4, <1>5 DEF Next, Program, Environment

LEMMA PlaceStep ==
    ASSUME TxInv, TypeInv, PlaceInv, FreshInv, Undisturbed, Undisturbed', [Next]_vars,
           UNCHANGED <<args, stops>>
    PROVE  PlaceInv'
<1>1. PathResolves' = PathResolves
  BY DEF PathResolves
<1>2. CASE UNCHANGED vars
  <2>1. UNCHANGED <<pc, args, caller, queue, state, present, entries, watched, listening,
                    announced, batch, due>>
    BY <1>2 DEF vars, cli, list, dir, history
  <2> QED
    BY <1>1, <2>1 DEF PlaceInv, Unwatched
<1> SUFFICES ASSUME Next PROVE PlaceInv'
  BY <1>2
<1>3. /\ args.mode \in {"FILE", "DIRECTORY"} /\ pc \notin Over \cup {"parse"}
      /\ \/ Setup \/ Close \/ ListFiles \/ ListDirectory \/ Watch \/ StreamEnds
         \/ \E f \in NewFiles : Appear(f)
  BY UndisturbedSteps
<1> USE DEF PlaceInv, Unwatched, ListPCs, WatchPCs
<1>4. CASE Setup
  <2>1. Early /\ caller = "none" /\ UNCHANGED <<present, entries, watched, listening, announced,
        batch, due, state>>
    BY <1>4 DEF Setup, TxInv, CallerInv, Early, dir, history
  <2>2. CASE args.mode = "FILE"
    <3>1. pc' = "next" /\ caller' = "list"
      BY <1>4, <2>2 DEF Setup
    <3> QED
      BY <1>1, <2>1, <2>2, <3>1 DEF FreshInv
  <2>3. CASE args.mode = "DIRECTORY"
    <3>1. pc' = "directory" /\ caller' = "none" /\ queue' = << >>
      BY <1>4, <2>3 DEF Setup
    <3> QED
      BY <1>1, <2>1, <2>3, <3>1 DEF FreshInv
  <2> QED
    BY <1>3, <2>2, <2>3
<1>5. CASE Close
  <2>1. pc = "close" /\ pc' = "exited" /\ UNCHANGED <<caller, queue, state, present, entries,
        watched, listening, announced, batch, due>>
    BY <1>5 DEF Close, list, dir, history
  <2> QED
    BY <1>1, <2>1
<1>6. CASE OpenFile \/ Seek \/ CloseFile \/ Install \/ Activate \/ Finish \/ Delay
  <2>1. /\ pc \in ListPCs /\ pc' \in ListPCs
        /\ UNCHANGED <<caller, present, entries, watched, listening, announced, batch, due>>
    BY <1>6 DEF OpenFile, Seek, CloseFile, Install, Activate, Finish, Delay, list, dir, history
  <2>2. state' = "NORMAL"
    BY <1>6 DEF OpenFile, Seek, CloseFile, Install, Activate, Finish, Delay, list, Undisturbed
  <2> QED
    BY <1>1, <2>1, <2>2
<1>7. CASE EndFiles
  <2>1. /\ pc = "next" /\ pc' = Return[caller] /\ queue' = << >>
        /\ caller' = IF caller = "contents" THEN caller ELSE "none"
        /\ UNCHANGED <<state, present, entries, watched, listening, announced, batch, due>>
    BY <1>7 DEF EndFiles, dir, history
  <2>2. \/ caller = "list" /\ pc' = "close"
        \/ caller = "contents" /\ pc' = "contents"
        \/ caller = "watch" /\ pc' = "events"
    BY <2>1 DEF TxInv, CallerInv, Return, Callers
  <2> QED
    BY <1>1, <1>3, <2>1, <2>2
<1>8. CASE Restore
  <2>1. caller # "stream"
    BY <1>3
  <2>2. outcome = "NORMAL"
    BY <1>8 DEF Restore, Undisturbed
  <2>3. /\ pc = "sending" /\ pc' = "delay" /\ state' = "NORMAL"
        /\ UNCHANGED <<caller, queue, present, entries, watched, listening, announced, batch, due>>
    BY <1>8, <2>1, <2>2 DEF Restore, dir
  <2> QED
    BY <1>1, <2>3
<1>9. CASE OpenDirectory
  <2>1. /\ Early /\ pc = "directory" /\ pc' = "contents" /\ caller' = "contents"
        /\ state' = "NORMAL"
        /\ UNCHANGED <<queue, present, watched, listening, announced, batch, due>>
    BY <1>9 DEF OpenDirectory, Early, history
  <2> QED
    BY <1>1, <2>1 DEF FreshInv
<1>10. CASE SkipContents
  <2>1. /\ Early /\ pc = "directory" /\ pc' \in {"watch", "close"} /\ caller = "none"
        /\ UNCHANGED <<state, caller, queue, present, entries, watched, listening, announced,
                       batch, due>>
    BY <1>10 DEF SkipContents, AfterContents, Early, list, dir, TxInv, CallerInv
  <2> QED
    BY <1>1, <2>1 DEF FreshInv
<1>11. ASSUME NEW f \in Files, NextEntry(f) PROVE PlaceInv'
  <2>1. /\ pc = "contents" /\ pc' \in {"contents", "next"} /\ caller = "contents"
        /\ queue' # queue => pc' = "next"
        /\ UNCHANGED <<state, caller, present, watched, listening, announced, batch, due>>
    BY <1>11 DEF NextEntry, TxInv, CallerInv, history
  <2> QED
    BY <1>1, <2>1
<1>12. CASE EndContents
  <2>1. /\ pc = "contents" /\ pc' \in {"watch", "close"} /\ caller = "contents"
        /\ caller' = "none" /\ entries = {}
        /\ UNCHANGED <<state, queue, present, entries, watched, listening, announced, batch, due>>
    BY <1>12 DEF EndContents, AfterContents, TxInv, CallerInv, dir, history
  <2> QED
    BY <1>1, <1>3, <2>1
<1>13. CASE WatchFails \/ AddWatch
  <2>1. /\ pc = "watch"
        /\ pc' = "arm" \/ (pc' = "aborted" /\ UNCHANGED watched)
        /\ UNCHANGED <<state, caller, queue, present, entries, listening, announced, batch, due>>
    BY <1>13 DEF WatchFails, AddWatch, list, dir, history
  <2> QED
    BY <1>1, <1>3, <2>1
<1>14. CASE Arm \/ EnterPoll \/ TestListen
  <2>1. /\ \/ pc = "arm" /\ pc' = "begin"
           \/ pc = "enter" /\ pc' = "poll"
           \/ pc = "listen" /\ listening /\ pc' = "enter"
           \/ pc = "listen" /\ ~listening /\ pc' = "unarm"
        /\ UNCHANGED <<state, caller, queue, present, entries, watched, listening, announced, batch,
                       due>>
    BY <1>14 DEF Arm, EnterPoll, TestListen, list, dir, history
  <2> QED
    BY <1>1, <1>3, <2>1
<1>15. CASE BeginListen
  <2>1. /\ pc = "begin" /\ pc' = "listen" /\ listening'
        /\ UNCHANGED <<state, caller, queue, present, entries, watched, announced, batch, due>>
    BY <1>15 DEF BeginListen, list, history
  <2> QED
    BY <1>1, <1>3, <2>1
<1>16. CASE WatchTimeout
  <2>1. /\ pc = "poll" /\ pc' = "listen" /\ listening' = FALSE /\ announced = << >>
        /\ UNCHANGED <<state, caller, queue, present, entries, watched, announced, batch, due>>
    BY <1>16 DEF WatchTimeout, list, history
  <2>2. Range(<< >>) = {} /\ caller # "watch"
    BY <2>1 DEF Range, TxInv, CallerInv, Over
  <2> QED
    BY <1>1, <1>3, <2>1, <2>2
<1>17. CASE ReadEvents
  <2>1. /\ pc = "poll" /\ pc' = "events"
        /\ UNCHANGED <<state, caller, queue, present, entries, watched, listening, due>>
    BY <1>17 DEF ReadEvents, list, history
  <2> QED
    BY <1>1, <1>3, <2>1
<1>18. CASE TransmitNewFile
  <2>1. /\ pc = "events" /\ pc' = "next" /\ caller' = "watch" /\ state' = "NORMAL"
        /\ UNCHANGED <<present, entries, watched, listening, announced, due>>
    BY <1>18 DEF TransmitNewFile
  <2>2. caller # "contents"
    BY <2>1
  <2> QED
    BY <1>1, <1>3, <2>1, <2>2
<1>19. CASE EndEvents
  <2>1. /\ pc = "events" /\ pc' = "listen" /\ batch = << >>
        /\ UNCHANGED <<state, caller, queue, present, entries, watched, listening, announced, batch,
                       due>>
    BY <1>19 DEF EndEvents, list, dir, history
  <2> QED
    BY <1>1, <1>3, <2>1
<1>20. CASE Unarm
  <2>1. /\ pc = "unarm" /\ pc' = "close" /\ watched' = FALSE
        /\ UNCHANGED <<state, caller, queue, present, entries, listening, announced, batch, due>>
    BY <1>20 DEF Unarm, list, history
  <2> QED
    BY <1>1, <1>3, <2>1
<1>21. ASSUME NEW f \in NewFiles, Appear(f) PROVE PlaceInv'
  <2>1. /\ args.mode = "DIRECTORY" /\ f \notin present /\ present' = present \cup {f}
        /\ UNCHANGED <<pc, state, caller, queue, watched, listening, batch>>
        /\ caller # "contents" => entries' = entries
    BY <1>21 DEF Appear, list
  <2>2. CASE ~watched
    <3>1. UNCHANGED <<announced, due>>
      BY <1>21, <2>2 DEF Appear
    <3> QED
      BY <1>1, <2>1, <3>1
  <2>3. CASE watched
    <3>1. pc # "watch" /\ caller # "contents"
      BY <2>3
    <3>2. due' \subseteq due \cup {f}
      BY <1>21 DEF Appear
    <3>3. pc \in {"arm", "begin"} \/ listening \/ due' \cap Range(announced') = {}
      <4>1. CASE pc \in {"arm", "begin"} \/ listening
        BY <4>1
      <4>2. CASE ~(pc \in {"arm", "begin"} \/ listening)
        <5>1. due' = due /\ announced' \in {announced, Append(announced, f)}
          BY <1>21, <4>2 DEF Appear
        <5>2. Range(Append(announced, f)) \subseteq Range(announced) \cup {f}
          <6>1. /\ DOMAIN Append(announced, f) = 1..(Len(announced) + 1) /\ Len(announced) \in Nat
                /\ DOMAIN announced = 1..Len(announced)
                /\ Append(announced, f)[Len(announced) + 1] = f
                /\ \A i \in 1..Len(announced) : Append(announced, f)[i] = announced[i]
            BY DEF TypeInv, DirType
          <6> QED
            BY <6>1 DEF Range
        <5>3. f \notin due
          BY <2>1
        <5> QED
          BY <4>2, <5>1, <5>2, <5>3
      <4> QED
        BY <4>1, <4>2
    <3> QED
      BY <1>1, <2>1, <2>3, <3>1, <3>2, <3>3
  <2> QED
    BY <2>2, <2>3
<1> QED
  BY <1>3, <1>4, <1>5, <1>6, <1>7, <1>8, <1>9, <1>10, <1>11, <1>12, <1>13, <1>14, <1>15, <1>16,
     <1>17, <1>18, <1>19, <1>20, <1>21
  DEF ListFiles, ListDirectory, Watch, FileEnds, StreamEnds

\* How the line changes with its three parts.
LEMMA LineParts ==
    ASSUME NEW S, NEW q \in Seq(S), NEW b \in Seq(S), NEW a \in Seq(S)
    PROVE  /\ q \o b \o a \in Seq(S)
           /\ q # << >> => /\ q \o b \o a # << >> /\ (q \o b \o a)[1] = Head(q)
                           /\ Tail(q) \o b \o a = Tail(q \o b \o a)
           /\ \A f \in S : q \o b \o Append(a, f) = Append(q \o b \o a, f)
           /\ b # << >> => <<Head(b)>> \o Tail(b) \o a = << >> \o b \o a
<1>1. q \o b \o a \in Seq(S)
  OBVIOUS
<1>2. ASSUME q # << >>
      PROVE  /\ q \o b \o a # << >> /\ (q \o b \o a)[1] = Head(q)
             /\ Tail(q) \o b \o a = Tail(q \o b \o a)
  BY <1>2
<1>3. ASSUME NEW f \in S PROVE q \o b \o Append(a, f) = Append(q \o b \o a, f)
  OBVIOUS
<1>4. ASSUME b # << >> PROVE <<Head(b)>> \o Tail(b) \o a = << >> \o b \o a
  BY <1>4
<1> QED
  BY <1>1, <1>2, <1>3, <1>4

\* Events that are read keep their places.
LEMMA LineSplits ==
    ASSUME NEW S, NEW q \in Seq(S), NEW a \in Seq(S), NEW n \in 0..Len(a)
    PROVE  q \o SubSeq(a, 1, n) \o SubSeq(a, n + 1, Len(a)) = q \o << >> \o a
<1> DEFINE b1 == SubSeq(a, 1, n)
           a1 == SubSeq(a, n + 1, Len(a))
<1>1. /\ b1 \in Seq(S) /\ Len(b1) = n /\ \A i \in 1..n : b1[i] = a[i]
      /\ a1 \in Seq(S) /\ Len(a1) = Len(a) - n
      /\ \A i \in 1..(Len(a) - n) : a1[i] = a[n + i]
  OBVIOUS
<1> HIDE DEF a1, b1
<1>2. b1 \o a1 \in Seq(S) /\ Len(b1 \o a1) = Len(a)
  BY <1>1
<1>3. ASSUME NEW i \in 1..Len(a) PROVE (b1 \o a1)[i] = a[i]
  <2>1. (b1 \o a1)[i] = IF i <= n THEN b1[i] ELSE a1[i - n]
    BY <1>1, ConcatProperties
  <2>2. n \in Nat /\ Len(a) \in Nat /\ i \in Nat \ {0} /\ i <= Len(a)
    OBVIOUS
  <2>3. CASE i <= n
    BY <1>1, <2>1, <2>2, <2>3
  <2>4. CASE i > n
    <3>1. i - n \in 1..(Len(a) - n) /\ n + (i - n) = i
      BY <2>2, <2>4
    <3>2. a1[i - n] = a[n + (i - n)]
      BY <1>1, <3>1
    <3> QED
      BY <2>1, <2>2, <2>4, <3>1, <3>2
  <2>5. i <= n \/ i > n
    BY <2>2
  <2> QED
    BY <2>3, <2>4, <2>5, Zenon
<1>4. b1 \o a1 = a
  BY <1>2, <1>3, SeqEqual
<1>5. q \o b1 \o a1 = q \o (b1 \o a1) /\ q \o << >> \o a = q \o a
  BY <1>1
<1> QED
  BY <1>4, <1>5 DEF a1, b1

\* A step that moves nothing in line and sends nothing.
LEMMA LineStays ==
    ASSUME LineInv, CountInv, DoneInv, Line' = Line, Open' = Open,
           UNCHANGED <<args, entries, sent, present, due>>,
           Open => /\ UNCHANGED <<queue, count>> /\ (pc' = "delay" <=> pc = "delay")
                   /\ pc' # "again" => count >= 0
    PROVE  LineInv' /\ CountInv' /\ DoneInv'
<1>1. Given' = Given
  BY DEF Given, Sendable
<1>2. LineInv'
  BY DEF LineInv, IsInjective
<1>3. CountInv'
  BY DEF CountInv
<1>4. DoneInv'
  BY <1>1 DEF DoneInv
<1> QED
  BY <1>2, <1>3, <1>4

\* The first file leaves the line.
LEMMA LineMoves ==
    ASSUME LineInv, DoneInv, Line \in Seq(Files), Line # << >>, Line' = Tail(Line), ~Open',
           Line[1] \in Given => sent[Line[1]] = args.retransmit_count + 1,
           UNCHANGED <<args, entries, sent, present, due>>
    PROVE  LineInv' /\ CountInv' /\ DoneInv'
<1>1. Given' = Given
  BY DEF Given, Sendable
<1> DEFINE t == Tail(Line)
<1>2. /\ Len(Line) \in Nat \ {0} /\ DOMAIN Line = 1..Len(Line)
      /\ DOMAIN t = 1..(Len(Line) - 1) /\ \A i \in DOMAIN t : t[i] = Line[i + 1]
  OBVIOUS
<1> HIDE DEF t
<1>3. \A i \in DOMAIN t : i \in Nat /\ i + 1 \in DOMAIN Line /\ i + 1 > 1 /\ t[i] = Line[i + 1]
  BY <1>2
<1>4. LineInv'
  <2>1. IsInjective(t)
    BY <1>3 DEF LineInv, IsInjective
  <2>2. \A i \in DOMAIN t : t[i] \notin entries /\ sent[t[i]] = 0
    BY <1>3 DEF LineInv
  <2>3. args.mode = "DIRECTORY" => \A i \in DOMAIN t : t[i] \in present
    BY <1>3 DEF LineInv
  <2>4. Line' = t
    BY DEF t
  <2> QED
    BY <2>1, <2>2, <2>3, <2>4 DEF LineInv, IsInjective
<1>5. CountInv'
  BY DEF CountInv
<1>6. DoneInv'
  <2>1. ASSUME NEW f \in Given PROVE f \in Range(t) \/ f \in entries \/ sent[f] = args.retransmit_count + 1
    <3>1. CASE f = Line[1]
      BY <2>1, <3>1
    <3>2. ASSUME NEW i \in DOMAIN Line, f = Line[i], i # 1 PROVE f \in Range(t)
      <4>1. i - 1 \in DOMAIN t /\ t[i - 1] = f
        BY <1>2, <3>2
      <4> QED
        BY <4>1 DEF Range
    <3>3. CASE f \notin Range(Line)
      BY <2>1, <3>3 DEF DoneInv
    <3> QED
      BY <3>1, <3>2, <3>3 DEF Range
  <2> QED
    BY <1>1, <2>1 DEF DoneInv, t
<1> QED
  BY <1>4, <1>5, <1>6

SendInv == LineInv /\ CountInv /\ DoneInv

LEMMA LineType ==
    ASSUME TypeInv
    PROVE  /\ Line \in Seq(Files) /\ DOMAIN Line = 1..Len(Line) /\ Len(Line) \in Nat
           /\ queue # << >> => /\ Line # << >> /\ Line[1] = Head(queue) /\ 1 \in DOMAIN Line
                               /\ Tail(queue) \o batch \o announced = Tail(Line)
<1>1. queue \in Seq(Files) /\ batch \in Seq(Files) /\ announced \in Seq(Files)
  <2>1. NewFiles \subseteq Files
    BY TxAssumption
  <2>2. \A s \in Seq(NewFiles) : s \in Seq(Files)
    BY <2>1
  <2> QED
    BY <2>2 DEF TypeInv, ListType, DirType
<1>2. Line \in Seq(Files)
  BY <1>1, LineParts DEF Line
<1>3. queue # << >> => /\ Line # << >> /\ Line[1] = Head(queue)
                       /\ Tail(queue) \o batch \o announced = Tail(Line)
  BY <1>1, LineParts DEF Line
<1> QED
  BY <1>2, <1>3

\* Steps at the transmission and around it that send nothing.
LEMMA SendStays ==
    ASSUME TxInv, TypeInv, PlaceInv, Undisturbed, Undisturbed', Next, UNCHANGED args, SendInv,
           Close \/ EndFiles \/ Seek \/ Install \/ Activate \/ Finish \/ EndContents \/ Watch
    PROVE  SendInv'
<1> USE DEF SendInv, Open, ListPCs
<1>1. CASE Close \/ EndContents \/ WatchFails \/ AddWatch \/ Arm \/ BeginListen \/ TestListen
           \/ EnterPoll \/ WatchTimeout \/ EndEvents \/ Unarm
  <2>1. /\ UNCHANGED <<queue, batch, announced, entries, sent, present, due>>
        /\ ~Open /\ ~Open'
    BY <1>1 DEF Close, EndContents, AfterContents, WatchFails, AddWatch, Arm, BeginListen,
                TestListen, EnterPoll, WatchTimeout, EndEvents, Unarm, list, dir, history
  <2> QED
    BY <2>1, LineStays DEF Line
<1>2. CASE EndFiles
  <2>1. queue = << >>
    BY <1>2 DEF EndFiles, PlaceInv
  <2>2. /\ queue' = queue /\ UNCHANGED <<batch, announced, entries, sent, present, due>>
        /\ ~Open /\ ~Open'
    BY <1>2, <2>1 DEF EndFiles, TxInv, CallerInv, Callers, Return, dir, history
  <2> QED
    BY <2>2, LineStays DEF Line
<1>3. CASE Seek \/ Install \/ Activate \/ Finish
  <2>1. /\ UNCHANGED <<queue, batch, announced, entries, sent, present, due>>
        /\ pc \in {"again", "install", "sending"} /\ pc' \in {"install", "sending"}
        /\ count' = count
    BY <1>3 DEF Seek, Install, Activate, Finish, Undisturbed, list, dir, history
  <2>2. count >= 0
    <3>1. CASE pc = "again"
      <4>1. Seek
        BY <1>3, <3>1 DEF Seek, Install, Activate, Finish
      <4>2. args.retransmit_count # -1
        BY DEF Undisturbed, TypeInv, HistoryType
      <4> QED
        BY <4>1, <4>2 DEF Seek, More
    <3>2. CASE pc # "again"
      BY <2>1, <3>2 DEF CountInv
    <3> QED
      BY <3>1, <3>2
  <2> QED
    BY <2>1, <2>2, LineStays DEF Line
<1>4. CASE ReadEvents
  <2> DEFINE n == IF Len(announced) < BufferMax THEN Len(announced) ELSE BufferMax
  <2>1. queue = << >> /\ batch = << >> /\ ~Open /\ ~Open'
    BY <1>4 DEF ReadEvents, PlaceInv, TxInv, CallerInv, Over
  <2>2. n \in 0..Len(announced)
    BY TxAssumption DEF TypeInv, DirType
  <2>3. /\ batch' = SubSeq(announced, 1, n)
        /\ announced' = SubSeq(announced, n + 1, Len(announced))
        /\ UNCHANGED <<queue, entries, sent, present, due>>
    BY <1>4 DEF ReadEvents, list, history
  <2> HIDE DEF n
  <2>4. Line' = Line
    <3>1. queue \in Seq(Files) /\ batch \in Seq(NewFiles) /\ announced \in Seq(NewFiles)
      BY DEF TypeInv, ListType, DirType
    <3>2. << >> \o SubSeq(announced, 1, n) \o SubSeq(announced, n + 1, Len(announced))
          = << >> \o << >> \o announced
      <4>1. << >> \in Seq(NewFiles)
        OBVIOUS
      <4> QED
        BY <2>2, <3>1, <4>1, LineSplits
    <3> QED
      BY <2>1, <2>3, <3>2 DEF Line
  <2> QED
    BY <2>1, <2>3, <2>4, LineStays
<1>5. CASE TransmitNewFile
  <2>1. queue = << >> /\ ~Open /\ ~Open'
    BY <1>5 DEF TransmitNewFile, PlaceInv
  <2>2. /\ batch # << >> /\ queue' = <<Head(batch)>> /\ batch' = Tail(batch)
        /\ UNCHANGED <<announced, entries, sent, present, due>>
    BY <1>5 DEF TransmitNewFile
  <2>3. Line' = Line
    <3>1. batch \in Seq(NewFiles) /\ announced \in Seq(NewFiles)
      BY DEF TypeInv, DirType
    <3>2. <<Head(batch)>> \o Tail(batch) \o announced = << >> \o batch \o announced
      BY <2>2, <3>1, LineParts, EmptySeq
    <3> QED
      BY <2>1, <2>2, <3>2 DEF Line
  <2> QED
    BY <2>1, <2>2, <2>3, LineStays
<1> QED
  BY <1>1, <1>2, <1>3, <1>4, <1>5 DEF Watch

\* The file that is opened, sent again and closed.
LEMMA SendCounts ==
    ASSUME TxInv, TypeInv, WholeInv, PlaceInv, Undisturbed, Undisturbed', Next, UNCHANGED args,
           args.mode \in {"FILE", "DIRECTORY"},
           SendInv, OpenFile \/ CloseFile \/ Delay \/ Restore
    PROVE  SendInv'
<1> USE DEF SendInv
<1> DEFINE R == args.retransmit_count
<1>1. R \in Nat /\ R < SentMax /\ SentMax \in Nat
  BY TxAssumption DEF Undisturbed
<1>2. Line \in Seq(Files) /\ DOMAIN Line = 1..Len(Line) /\ Len(Line) \in Nat
  BY LineType
<1>3. caller \notin {"stream"} /\ (Open => queue # << >>)
  <2>1. caller # "stream"
    BY DEF PlaceInv
  <2> QED
    BY <2>1 DEF TypeInv, ListType, Handling, Open
<1>4. CASE OpenFile
  <2> DEFINE f == Head(queue)
  <2>1. /\ pc = "next" /\ queue # << >> /\ UNCHANGED <<batch, announced, entries, sent, present, due>>
    BY <1>4 DEF OpenFile, dir, history
  <2>2. /\ Line # << >> /\ Line[1] = f /\ 1 \in DOMAIN Line /\ ~Open
        /\ Tail(queue) \o batch \o announced = Tail(Line)
    BY <2>1, LineType DEF Open
  <2>3. CASE Opens(f)
    <3>1. pc' = "again" /\ count' = R /\ queue' = queue
      BY <1>4, <2>3 DEF OpenFile
    <3>2. Line' = Line
      BY <2>1, <3>1 DEF Line
    <3>3. LineInv'
      BY <2>1, <2>2, <3>2 DEF LineInv, IsInjective
    <3>4. CountInv'
      <4>1. sent[f] = 0
        BY <2>2 DEF LineInv
      <4> QED
        BY <1>1, <2>1, <3>1, <4>1 DEF CountInv
    <3>5. DoneInv'
      <4>1. Given' = Given
        BY <2>1 DEF Given, Sendable
      <4> QED
        BY <2>1, <3>2, <4>1 DEF DoneInv
    <3> QED
      BY <3>3, <3>4, <3>5
  <2>4. CASE ~Opens(f)
    <3>1. pc' = "next" /\ queue' = Tail(queue)
      BY <1>4, <2>1, <2>4 DEF OpenFile
    <3>2. Line' = Tail(Line) /\ ~Open'
      BY <2>1, <2>2, <3>1 DEF Line, Open
    <3>3. Kind[f] = "missing"
      <4>1. InDirectory => PathResolves
        <5>1. InDirectory => args.mode = "DIRECTORY"
          BY DEF InDirectory, PlaceInv
        <5> QED
          BY <5>1 DEF PlaceInv
      <4> QED
        BY <2>4, <4>1 DEF Opens
    <3>4. f \notin Given
      <4>1. \A g \in NewFiles : Kind[g] = "regular"
        BY TxAssumption
      <4> QED
        BY <3>3, <4>1 DEF Given, Sendable, PlaceInv
    <3> QED
      BY <1>2, <2>1, <2>2, <3>2, <3>4, LineMoves
  <2> QED
    BY <2>3, <2>4
<1>5. CASE CloseFile
  <2>1. /\ pc = "again" /\ pc' = "next" /\ ~More /\ queue' = Tail(queue)
        /\ UNCHANGED <<batch, announced, entries, sent, present, due>>
    BY <1>5 DEF CloseFile, dir, history
  <2>2. queue # << >> /\ Open /\ ~Open'
    BY <1>3, <2>1 DEF Open
  <2>3. /\ Line # << >> /\ Line[1] = Head(queue)
        /\ Tail(queue) \o batch \o announced = Tail(Line)
    BY <2>2, LineType
  <2>4. Line' = Tail(Line)
    BY <2>1, <2>3 DEF Line
  <2>5. count \in -1..R /\ sent[Head(queue)] = R - count
    <3>1. count \in -1..R /\ sent[Head(queue)] = R - count + 0
      BY <2>1, <2>2 DEF CountInv
    <3> QED
      BY <1>1, <3>1
  <2>6. count = -1
    <3>1. ~(count >= 0)
      BY <2>1 DEF More, PlaceInv
    <3> QED
      BY <1>1, <2>5, <3>1
  <2>7. sent[Line[1]] = R + 1
    BY <1>1, <2>3, <2>5, <2>6
  <2> QED
    BY <1>2, <2>1, <2>2, <2>3, <2>4, <2>7, LineMoves
<1>6. CASE Delay
  <2>1. /\ pc = "delay" /\ pc' = "again" /\ count' = Less(count)
        /\ UNCHANGED <<queue, batch, announced, entries, sent, present, due>>
    BY <1>6 DEF Delay, dir, history
  <2>2. Line' = Line /\ Open /\ Open'
    BY <2>1 DEF Line, Open
  <2>3. Given' = Given
    BY <2>1 DEF Given, Sendable
  <2>4. LineInv' /\ DoneInv'
    BY <2>1, <2>2, <2>3 DEF LineInv, DoneInv, IsInjective
  <2>5. count \in 0..R /\ sent[Head(queue)] = R - count + 1
    BY <1>1, <2>1, <2>2 DEF CountInv
  <2>6. CountInv'
    BY <1>1, <2>1, <2>5 DEF CountInv, Less
  <2> QED
    BY <2>4, <2>6
<1>7. CASE Restore
  <2> DEFINE f == Head(queue)
  <2>1. /\ pc = "sending" /\ pc' = "delay" /\ outcome = "NORMAL" /\ phase = "done"
        /\ sent' = [sent EXCEPT ![f] = IF whole /\ @ < SentMax THEN @ + 1 ELSE @]
        /\ UNCHANGED <<queue, count, batch, announced, entries, present, due>>
    BY <1>3, <1>7 DEF Restore, Engine!End, Undisturbed, dir
  <2>2. queue # << >> /\ Open /\ Open' /\ whole
    BY <1>3, <2>1 DEF Open, WholeInv
  <2>3. /\ Line' = Line /\ Line[1] = f /\ 1 \in DOMAIN Line
    BY <2>1, <2>2, LineType DEF Line
  <2>4. count \in 0..R /\ sent[f] = R - count
    BY <1>1, <2>1, <2>2 DEF CountInv
  <2>5. f \in Files
    BY <2>2 DEF TypeInv, ListType
  <2>6. sent'[f] = R - count + 1 /\ \A g \in Files \ {f} : sent'[g] = sent[g]
    <3>1. sent \in [Files -> 0..SentMax] /\ sent[f] < SentMax
      BY <1>1, <2>4 DEF TypeInv, HistoryType
    <3> QED
      BY <1>1, <2>1, <2>2, <2>4, <2>5, <3>1
  <2> HIDE DEF f
  <2>7. CountInv'
    BY <2>1, <2>4, <2>6 DEF CountInv, f
  <2>8. LineInv'
    <3>1. \A i \in DOMAIN Line : i > 1 => sent'[Line[i]] = 0
      <4> SUFFICES ASSUME NEW i \in DOMAIN Line, i > 1 PROVE sent'[Line[i]] = 0
        OBVIOUS
      <4>1. Line[i] # f /\ Line[i] \in Files
        BY <1>2, <2>3 DEF LineInv, IsInjective
      <4> QED
        BY <2>6, <4>1 DEF LineInv
    <3>2. \A g \in entries : sent'[g] = 0
      <4>1. f \notin entries
        BY <2>3 DEF LineInv
      <4>2. entries \subseteq Files
        BY DEF TypeInv, DirType
      <4> QED
        BY <2>6, <4>1, <4>2 DEF LineInv
    <3>3. args.mode = "DIRECTORY" => \A g \in NewFiles \ present : sent'[g] = 0
      <4>1. args.mode = "DIRECTORY" => f \in present
        BY <2>3 DEF LineInv
      <4>2. NewFiles \subseteq Files
        BY TxAssumption
      <4> QED
        BY <2>6, <4>1, <4>2 DEF LineInv
    <3> QED
      BY <2>1, <2>2, <2>3, <3>1, <3>2, <3>3 DEF LineInv, IsInjective
  <2>9. DoneInv'
    <3>1. Given' = Given
      BY <2>1 DEF Given, Sendable
    <3>2. Given \subseteq Files
      BY TxAssumption DEF Given, Sendable, PlaceInv, TypeInv, FilesInv, Range
    <3>3. f \in Range(Line)
      BY <2>3 DEF Range
    <3> QED
      BY <2>1, <2>3, <2>6, <3>1, <3>2, <3>3 DEF DoneInv
  <2> QED
    BY <2>7, <2>8, <2>9
<1> QED
  BY <1>4, <1>5, <1>6, <1>7

\* The steps that fill the line from the command line or from the directory.
LEMMA SendFills ==
    ASSUME TxInv, TypeInv, FreshInv, PlaceInv, Undisturbed, Undisturbed', Next, UNCHANGED args,
           args.mode \in {"FILE", "DIRECTORY"}, Early,
           Setup \/ OpenDirectory \/ SkipContents, ~Early'
    PROVE  SendInv'
<1>1. /\ Unwatched /\ queue = << >> /\ entries = {} /\ due = {} /\ Contents \subseteq present
      /\ \A f \in Files : sent[f] = 0
  BY DEF FreshInv
<1>2. CASE Setup
  <2>1. args.mode = "FILE"
    BY <1>2 DEF Setup, Early
  <2>2. /\ queue' = args.files /\ pc' = "next"
        /\ UNCHANGED <<batch, announced, entries, sent, present, due>>
    BY <1>2, <2>1 DEF Setup, dir, history
  <2>3. args.files \in Seq(Files) /\ IsInjective(args.files)
    BY DEF TypeInv, FilesInv, Undisturbed
  <2>4. Line' = args.files
    <3>1. queue' \o batch' \o announced' = args.files \o << >> \o << >>
      BY <1>1, <2>2 DEF Unwatched
    <3> QED
      BY <2>3, <3>1 DEF Line
  <2>5. ~Open'
    BY <2>2 DEF Open
  <2>6. LineInv'
    <3>1. \A i \in DOMAIN args.files : args.files[i] \in Files
      BY <2>3
    <3> QED
      BY <1>1, <2>1, <2>2, <2>3, <2>4, <2>5, <3>1 DEF LineInv, IsInjective
  <2>7. DoneInv'
    BY <2>1, <2>2, <2>4 DEF DoneInv, Given, Sendable
  <2> QED
    BY <2>5, <2>6, <2>7 DEF SendInv, CountInv
<1>3. CASE OpenDirectory \/ SkipContents
  <2>1. /\ UNCHANGED <<queue, batch, announced, sent, present, due>>
        /\ pc = "directory" /\ pc' \in {"contents", "watch", "close"}
    BY <1>3 DEF OpenDirectory, SkipContents, AfterContents, list, dir, history
  <2>2. Line' = << >> /\ ~Open'
    <3>1. << >> \o << >> \o << >> = << >>
      OBVIOUS
    <3> QED
      BY <1>1, <2>1, <3>1 DEF Line, Open, Unwatched
  <2>3. entries' \subseteq Files
    BY <1>1, <1>3 DEF OpenDirectory, SkipContents, dir, TypeInv, DirType
  <2>4. LineInv'
    <3>1. \A f \in NewFiles : sent[f] = 0
      BY <1>1, TxAssumption
    <3>2. \A f \in entries' : sent[f] = 0
      BY <1>1, <2>3
    <3> QED
      BY <2>1, <2>2, <3>1, <3>2 DEF LineInv, IsInjective
  <2>5. args.mode = "DIRECTORY"
    BY <1>3, <2>1 DEF PlaceInv, ListPCs
  <2>6. DoneInv'
    <3>1. CASE OpenDirectory
      <4>1. entries' = present
        BY <3>1 DEF OpenDirectory
      <4>2. Given' \subseteq Contents
        BY <1>1, <2>1, <2>5 DEF Given, Sendable
      <4> QED
        BY <1>1, <4>1, <4>2 DEF DoneInv
    <3>2. CASE SkipContents
      <4>1. ~args.transmit_current_files
        BY <3>2 DEF SkipContents, Undisturbed
      <4>2. Given' = {}
        BY <1>1, <2>1, <2>5, <4>1 DEF Given
      <4> QED
        BY <4>2 DEF DoneInv
    <3> QED
      BY <1>3, <3>1, <3>2
  <2> QED
    BY <2>2, <2>4, <2>6 DEF SendInv, CountInv
<1> QED
  BY <1>2, <1>3

\* An entry of the directory is put in line, or is none to be sent.
LEMMA SendEntry ==
    ASSUME TxInv, TypeInv, PlaceInv, UNCHANGED args, args.mode \in {"FILE", "DIRECTORY"},
           SendInv, NEW f \in Files, NextEntry(f)
    PROVE  SendInv'
<1>1. /\ pc = "contents" /\ f \in entries /\ entries' = entries \ {f} /\ caller = "contents"
      /\ UNCHANGED <<batch, announced, sent, present, due>>
  BY DEF NextEntry, TxInv, CallerInv, history
<1>2. args.mode = "DIRECTORY" /\ Unwatched /\ queue = << >> /\ PathResolves /\ due = {}
  BY <1>1 DEF PlaceInv, ListPCs
<1>3. ~Open /\ ~Open'
  BY <1>1 DEF Open, NextEntry
<1>4. f \in present /\ sent[f] = 0
  BY <1>1 DEF TypeInv, DirType, SendInv, LineInv
<1>5. Line = << >>
  <2>1. << >> \o << >> \o << >> = << >>
    OBVIOUS
  <2> QED
    BY <1>2, <2>1 DEF Line, Unwatched
<1>6. Given' = Given
  BY <1>1 DEF Given, Sendable
<1>7. CASE Eligible(f)
  <2>1. Line' = <<f>>
    <3>1. queue' = <<f>>
      BY <1>7 DEF NextEntry
    <3>2. <<f>> \o << >> \o << >> = <<f>>
      OBVIOUS
    <3> QED
      BY <1>1, <1>2, <3>1, <3>2 DEF Line, Unwatched
  <2>2. LineInv'
    BY <1>1, <1>3, <1>4, <2>1 DEF SendInv, LineInv, IsInjective
  <2>3. f \in Range(Line')
    BY <2>1 DEF Range
  <2>4. DoneInv'
    <3>1. \A g : g \notin Range(Line)
      BY <1>5 DEF Range
    <3> QED
      BY <1>1, <1>6, <2>3, <3>1 DEF SendInv, DoneInv
  <2> QED
    BY <1>3, <2>2, <2>4 DEF SendInv, CountInv
<1>8. CASE ~Eligible(f)
  <2>1. Line' = Line
    BY <1>1, <1>8 DEF NextEntry, Line
  <2>2. LineInv'
    BY <1>1, <1>3, <1>5, <2>1 DEF SendInv, LineInv, IsInjective
  <2>3. f \notin Given
    BY <1>2, <1>8 DEF Given, Sendable, Eligible
  <2>4. DoneInv'
    BY <1>1, <1>6, <2>1, <2>3 DEF SendInv, DoneInv
  <2> QED
    BY <1>3, <2>2, <2>4 DEF SendInv, CountInv
<1> QED
  BY <1>7, <1>8

\* A new file joins the end of the line, if the directory is under watch.
LEMMA SendAppears ==
    ASSUME TypeInv, PlaceInv, UNCHANGED args, SendInv, NEW f \in NewFiles, Appear(f)
    PROVE  SendInv'
<1>1. /\ args.mode = "DIRECTORY" /\ f \notin present /\ present' = present \cup {f}
      /\ entries' \subseteq entries \cup {f} /\ entries \subseteq entries'
      /\ caller # "contents" => entries' = entries
      /\ UNCHANGED <<pc, queue, count, batch, sent>>
  BY DEF Appear, list
<1>2. /\ Line \in Seq(Files) /\ DOMAIN Line = 1..Len(Line) /\ Len(Line) \in Nat
      /\ queue # << >> => Line[1] = Head(queue)
      /\ f \in Files
  BY LineType, TxAssumption
<1>3. sent[f] = 0 /\ (\A i \in DOMAIN Line : Line[i] # f) /\ Open' = Open
  BY <1>1 DEF SendInv, LineInv, Open
<1>4. CountInv'
  BY <1>1, <1>3 DEF SendInv, CountInv
<1>5. CASE UNCHANGED <<announced, due>>
  <2>1. Line' = Line /\ Given' = Given
    BY <1>1, <1>5 DEF Line, Given, Sendable
  <2>2. LineInv'
    BY <1>1, <1>3, <2>1 DEF SendInv, LineInv, IsInjective
  <2>3. DoneInv'
    BY <1>1, <2>1 DEF SendInv, DoneInv
  <2> QED
    BY <1>4, <2>2, <2>3 DEF SendInv
<1>6. CASE watched /\ announced' = Append(announced, f) /\ due' \in {due, due \cup {f}}
  <2>1. Line' = Append(Line, f)
    <3>1. NewFiles \subseteq Files
      BY TxAssumption
    <3>2. \A s \in Seq(NewFiles) : s \in Seq(Files)
      BY <3>1
    <3>3. queue \in Seq(Files) /\ batch \in Seq(Files) /\ announced \in Seq(Files)
      BY <3>2 DEF TypeInv, ListType, DirType
    <3>4. queue \o batch \o Append(announced, f) = Append(queue \o batch \o announced, f)
      BY <1>2, <3>3, LineParts
    <3> QED
      BY <1>1, <1>6, <3>4 DEF Line
  <2>2. /\ DOMAIN Append(Line, f) = 1..(Len(Line) + 1)
        /\ Append(Line, f)[Len(Line) + 1] = f
        /\ \A i \in DOMAIN Line : Append(Line, f)[i] = Line[i] /\ i # Len(Line) + 1
    BY <1>2
  <2>3. DOMAIN Append(Line, f) = DOMAIN Line \cup {Len(Line) + 1}
    BY <1>2, <2>2
  <2>4. entries' = entries /\ f \notin entries
    BY <1>1, <1>6 DEF PlaceInv, Unwatched, TypeInv, DirType
  <2>5. LineInv'
    <3> DEFINE L == Append(Line, f)
    <3>1. IsInjective(L)
      BY <1>3, <2>2, <2>3 DEF SendInv, LineInv, IsInjective
    <3>2. \A i \in DOMAIN L : L[i] \notin entries /\ (i > 1 \/ ~Open => sent[L[i]] = 0)
      BY <1>3, <2>2, <2>3, <2>4 DEF SendInv, LineInv
    <3>3. \A i \in DOMAIN L : L[i] \in present \cup {f}
      BY <1>1, <2>2, <2>3 DEF SendInv, LineInv
    <3> HIDE DEF L
    <3>4. Line' = L
      BY <2>1 DEF L
    <3> QED
      BY <1>1, <1>3, <2>4, <3>1, <3>2, <3>3, <3>4 DEF SendInv, LineInv, IsInjective
  <2>6. DoneInv'
    <3>1. Given' \subseteq Given \cup {f}
      BY <1>1, <1>6 DEF Given, Sendable
    <3>2. Range(Line) \cup {f} \subseteq Range(Append(Line, f))
      BY <2>2, <2>3 DEF Range
    <3> QED
      BY <1>1, <2>1, <2>4, <3>1, <3>2 DEF SendInv, DoneInv
  <2> QED
    BY <1>4, <2>5, <2>6 DEF SendInv
<1> QED
  BY <1>5, <1>6 DEF Appear

\* A name with no slash inside: see the run tx_path for the names that have one.
PlainPaths == \A d \in Directories : DirForm[d] \in {"plain", "trailing"}

\* When the command line has been parsed, nothing is sent yet.
LEMMA ParsedInv ==
    ASSUME PlainPaths, TxInv, TypeInv, FreshInv, ParseLast PROVE PlaceInv' /\ Early'
<1>1. /\ Early /\ pc' = "setup" /\ args' = ParseEnd(args, Directories) /\ caller = "none"
      /\ UNCHANGED <<caller, queue, state, present, entries, watched, listening, announced, batch,
                     due>>
  BY DEF ParseLast, Early, TxInv, CallerInv, list, dir, history
<1>2. "mode" \in DOMAIN args /\ "files" \in DOMAIN args
  BY DEF TxInv, ArgsInv, TxDefaults
<1>3. args'.mode = "DIRECTORY" => PathResolves'
  <2> SUFFICES ASSUME args'.mode = "DIRECTORY" PROVE PathResolves'
    OBVIOUS
  <2>1. args'.files = args.files
    BY <1>1, <1>2 DEF ParseEnd
  <2>2. Len(args.files) = 1 /\ args.files[1] \in Directories
    BY <1>1, <1>2 DEF ParseEnd
  <2>3. args.files # << >> /\ DirForm[args.files[1]] \in {"plain", "trailing"}
    BY <2>2 DEF PlainPaths
  <2> QED
    BY <2>1, <2>3 DEF PathResolves
<1>4. /\ Unwatched /\ queue = << >> /\ entries = {} /\ due = {} /\ state = "NORMAL"
  BY <1>1 DEF FreshInv
<1>5. Range(<< >>) = {}
  BY DEF Range
<1> QED
  BY <1>1, <1>3, <1>4, <1>5 DEF PlaceInv, Unwatched, Early, ListPCs, WatchPCs

LEMMA SentStep ==
    ASSUME PlainPaths, TxInv, TypeInv, FreshInv, WholeInv, SentInv, [Next]_vars PROVE SentInv'
<1> SUFFICES ASSUME Undisturbed' PROVE PlaceInv' /\ (~Early' => SendInv')
  BY DEF SentInv, SendInv
<1>1. CASE ParseLast
  BY <1>1, ParsedInv
<1>2. CASE ~ParseLast
  <2>1. Undisturbed /\ UNCHANGED <<args, stops>>
    BY <1>2, Before
  <2>2. PlaceInv /\ (~Early => SendInv)
    BY <2>1 DEF SentInv, SendInv
  <2>3. PlaceInv'
    BY <2>1, <2>2, PlaceStep
  <2>4. CASE UNCHANGED vars
    <3>1. UNCHANGED <<pc, args, queue, count, present, entries, announced, batch, due, sent>>
      BY <2>4 DEF vars, cli, list, dir, history
    <3>2. Line' = Line /\ Open' = Open /\ Early' = Early
      BY <3>1 DEF Line, Open, Early
    <3> QED
      BY <2>2, <2>3, <3>1, <3>2
      DEF SendInv, LineInv, CountInv, DoneInv, Given, Sendable, IsInjective
  <2>5. ASSUME Next, ~Early' PROVE SendInv'
    <3>1. /\ args.mode \in {"FILE", "DIRECTORY"} /\ pc \notin Over \cup {"parse"}
          /\ \/ Setup \/ Close \/ ListFiles \/ ListDirectory \/ Watch \/ StreamEnds
             \/ \E f \in NewFiles : Appear(f)
      BY <2>1, <2>5, UndisturbedSteps
    <3>2. CASE Early
      <4>1. Setup \/ OpenDirectory \/ SkipContents
        <5>1. ~Close /\ ~ListFiles /\ ~StreamEnds
          BY <3>2 DEF Early, Close, ListFiles, OpenFile, EndFiles, Seek, CloseFile, Install,
                      Activate, FileEnds, StreamEnds, Finish, Restore, Delay
        <5>2. ~Watch /\ ~EndContents /\ ~(\E f \in Files : NextEntry(f))
          BY <3>2 DEF Early, Watch, WatchFails, AddWatch, Arm, BeginListen, TestListen, EnterPoll,
                      WatchTimeout, ReadEvents, TransmitNewFile, EndEvents, Unarm, EndContents,
                      NextEntry
        <5>3. ~(\E f \in NewFiles : Appear(f))
          BY <2>5, <3>2 DEF Early, Appear
        <5> QED
          BY <3>1, <5>1, <5>2, <5>3 DEF ListDirectory
      <4> QED
        BY <2>1, <2>2, <2>5, <3>1, <3>2, <4>1, SendFills
    <3>3. CASE ~Early
      <4>1. SendInv
        BY <2>2, <3>3
      <4>2. ~Setup /\ ~OpenDirectory /\ ~SkipContents
        BY <3>3 DEF Setup, OpenDirectory, SkipContents, Early
      <4>3. CASE Close \/ EndFiles \/ Seek \/ Install \/ Activate \/ Finish \/ EndContents \/ Watch
        BY <2>1, <2>2, <2>5, <4>1, <4>3, SendStays
      <4>4. CASE OpenFile \/ CloseFile \/ Delay \/ Restore
        BY <2>1, <2>2, <2>5, <3>1, <4>1, <4>4, SendCounts
      <4>5. ASSUME NEW f \in Files, NextEntry(f) PROVE SendInv'
        BY <2>1, <2>2, <3>1, <4>1, <4>5, SendEntry
      <4>6. ASSUME NEW f \in NewFiles, Appear(f) PROVE SendInv'
        BY <2>1, <2>2, <4>1, <4>6, SendAppears
      <4> QED
        BY <3>1, <4>2, <4>3, <4>4, <4>5, <4>6 DEF ListFiles, ListDirectory, FileEnds, StreamEnds
    <3> QED
      BY <3>2, <3>3
  <2> QED
    BY <2>3, <2>4, <2>5
<1> QED
  BY <1>1, <1>2

\* A program that exits by itself has sent all it was given, that its directory held and
\* that the watch announced, as often as it was told to, for every command line, every
\* directory and every way in which files appear (tx.c:236-316, 343-387), provided that
\* the name of the directory has no slash inside.
THEOREM AllIsSent == ASSUME PlainPaths PROVE Spec => []EverythingSent
<1>1. Init => FreshInv /\ WholeInv /\ SentInv
  <2> SUFFICES ASSUME Init PROVE FreshInv /\ WholeInv /\ SentInv
    OBVIOUS
  <2>1. WholeInv /\ SentInv
    BY DEF Init, Engine!Init, WholeInv, SentInv, Undisturbed
  <2>2. FreshInv
    BY DEF Init, FreshInv, Unwatched
  <2> QED
    BY <2>1, <2>2
<1>2. ASSUME TxInv, TypeInv, FreshInv, WholeInv, SentInv, [Next]_vars
      PROVE  FreshInv' /\ WholeInv' /\ SentInv'
  BY <1>2, FreshInvStep, WholeInvStep, SentStep
<1>3. ASSUME TxInv, TypeInv, SentInv PROVE EverythingSent
  <2> SUFFICES ASSUME pc = "exited", args.mode # "STREAM", stops = 0, clean,
                      args.retransmit_count \in 0..(SentMax - 1), IsInjective(args.files),
                      NEW f \in Given
               PROVE  sent[f] = args.retransmit_count + 1
    BY DEF EverythingSent
  <2>1. PlaceInv /\ DoneInv
    BY <1>3 DEF SentInv, Undisturbed, Early
  <2>2. /\ listening = FALSE /\ queue = << >> /\ caller # "watch" /\ caller # "contents"
    BY <1>3, <2>1 DEF PlaceInv, ListPCs, WatchPCs, TypeInv, DirType
  <2>3. batch = << >> /\ entries = {} /\ due \cap Range(announced) = {}
    BY <2>1, <2>2 DEF PlaceInv
  <2>4. Line = announced
    <3>1. announced \in Seq(NewFiles)
      BY <1>3 DEF TypeInv, DirType
    <3>2. << >> \o << >> \o announced = announced
      BY <3>1
    <3> QED
      BY <2>2, <2>3, <3>2 DEF Line
  <2>5. f \notin Range(announced)
    <3>1. CASE args.mode = "FILE"
      BY <2>1, <3>1 DEF PlaceInv, Unwatched, Range
    <3>2. CASE args.mode # "FILE"
      <4>1. Range(announced) \subseteq NewFiles
        BY <1>3 DEF TypeInv, DirType, Range
      <4>2. Contents \cap NewFiles = {}
        BY TxAssumption
      <4> QED
        BY <2>3, <3>2, <4>1, <4>2 DEF Given, Sendable
    <3> QED
      BY <3>1, <3>2
  <2> QED
    BY <2>1, <2>3, <2>4, <2>5 DEF DoneInv
<1> QED
  BY <1>1, <1>2, <1>3, TxInvHolds, TypeInvHolds, PTL DEF Spec
================================================================================
