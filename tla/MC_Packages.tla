---------------------------- MODULE MC_Packages ----------------------------
(***************************************************************************)
(* Small instances of what a package goes through: its container and       *)
(* signatures, the streamed table and its frames, the streaming session and*)
(* its replay pin, WASM framing and validation, launch, and the host       *)
(* broker.  They share no state here, so a behaviour exercises one of them,*)
(* `part`, and the others stay where they began.                           *)
(***************************************************************************)
EXTENDS PinStore, StreamSession, StreamDescriptor, RvfContainer, WasmValidator, Launch

CONSTANTS k1, k2, ShortLog    \* where instances that may do anything stop

VARIABLE part

\* Four segments in body order: three of stage 0, of which the second is a one-chunk
\* module, and a module of stage 1 that requires stage 0.
MCSeg == 1 .. 4
MCChunks == <<2, 1, 3, 2>>
MCStage == <<0, 0, 0, 1>>
MCRequires == <<{}, {}, {}, {0}>>
MCWasm == {2, 4}

MCPayload ==
  {[len |-> 1, classes |-> {"memory", "network"}, stream |-> FALSE, form |-> "bare", tag |-> 1],
   [len |-> 2, classes |-> {"clipboard"}, stream |-> FALSE, form |-> "rejected", tag |-> 2],
   [len |-> 1, classes |-> {"other"}, stream |-> TRUE, form |-> "headed", tag |-> 3]}
MCPolicy == [runtime |-> 1, model |-> 2, state |-> 2, memory |-> 3, container |-> 4, segments |-> 2]
MCMagic == <<2, 1>>
MCRanks == <<1, 3, 2>> @@ (0 :> 0)

\* Modules with one section or two, around every limit, and with function bodies.
MCUnit == [kind |-> "section", head |-> 1, body |-> 2, count |-> 0, ok |-> TRUE,
           counts |-> <<>>, imports |-> {}, memories |-> {}]
MCImport(m, f) == [module |-> m, name |-> f]
MCSection ==
  {[MCUnit EXCEPT !.head = h, !.body = b] : h \in {1, 2}, b \in {0, 2, 3, 4}}
  \cup {[MCUnit EXCEPT !.ok = FALSE],
        [MCUnit EXCEPT !.counts = [k \in {"Types"} |-> 3]],
        [MCUnit EXCEPT !.imports = {MCImport("env", "f"), MCImport("log", "g")}],
        [MCUnit EXCEPT !.imports = {MCImport("log", "f")}],
        [MCUnit EXCEPT !.memories = {2}], [MCUnit EXCEPT !.memories = {NoMaximum}]}
MCBody(b, locals) ==
  [MCUnit EXCEPT !.kind = "func", !.body = b, !.counts = [k \in {"Locals"} |-> locals]]
MCFunction == {MCBody(1, 1), MCBody(2, 2), MCBody(3, 2), MCBody(1, 3)}
MCCode(n) == [MCUnit EXCEPT !.kind = "code", !.head = 2, !.body = 0, !.count = n]
MCLimits == [kind \in LimitKind |-> 2]
MCImports == [kind |-> "Allowlist", list |-> {MCImport("env", "AnyField"), MCImport("log", "g")}]
MCModule ==
  {<<s>> : s \in MCSection} \cup {<<s, t>> : s, t \in MCSection}
  \cup {<<s, MCCode(1), f>> : s \in MCSection, f \in MCFunction}
  \cup {<<MCCode(2), f, g, s>> : f, g \in MCFunction, s \in MCSection}

MCReport ==
  {[ok |-> TRUE, identity_confirmed |-> TRUE, identity |-> "a", granted |-> {"network"},
    modules |-> {"m1"}],
   [ok |-> TRUE, identity_confirmed |-> TRUE, identity |-> "b", granted |-> {},
    modules |-> {"m1", "bad"}],
   [ok |-> TRUE, identity_confirmed |-> FALSE, identity |-> "c", granted |-> {},
    modules |-> {"m1"}],
   [ok |-> FALSE, identity_confirmed |-> TRUE, identity |-> "a", granted |-> {},
    modules |-> {"bad"}]}
MCAdapter ==
  {[env |-> "linux", engaged |-> {"network-namespace"}], [env |-> "windows", engaged |-> {}]}
MCAction == {[class |-> "network", permit |-> TRUE], [class |-> "process", permit |-> FALSE]}

\* At most one of the options differs from the default.
OneOption(o) ==
  Cardinality({x \in {"allow_unsigned_executable", "permit_buffered_stream_profile",
                      "require_pinned_identity"} : o[x]}) <= 1

-----------------------------------------------------------------------------
\* A component that is not exercised begins in one of its initial states only.
PackagesInit ==
  /\ part \in {"session", "pins", "table", "stream", "container", "report", "framing", "scanner", "validator", "launch", "verified",
             "lineage", "discharge", "broker"}
  /\ PinInit
  /\ SessionInit
  /\ StreamInit
  /\ (part \notin {"table", "stream"} => chunking = SegmentChunks)
  /\ (part # "stream" => order = "File" /\ identityKept)
  /\ ContainerInit
  /\ ReportInit
  /\ IF part = "report" THEN OneOption(opts) ELSE opts = CHOOSE o \in VerifyOptions : OneOption(o)
  /\ FramingInit /\ (part # "framing" => header = "wasm1")
  /\ ScannerInit
  /\ ValidatorInit /\ (part # "validator" => module = CHOOSE m \in Module : TRUE)
  /\ LaunchInit
  /\ BrokerInit

transmissionVars == <<order, identityKept, sent, arrived, tables, refused, altered>>

\* Tables of two entries, the first of which has the first identifier.
TableNext ==
  /\ Len(entries) < 2 /\ DescriptorNext /\ entries'[1].seg_id = 1
  /\ UNCHANGED transmissionVars

\* One instance whose module a streaming session starts, with capabilities derived,
\* removed and discharged around it.
StreamedNext ==
  \/ \E a \in UsedAdapter, p \in Package, q \in Partition :
       p.granted = {} /\ BeginCreate("i1", a, p, q)
  \/ EndCreate("i1")
  \/ \E v \in VerifiedModule : v.module = "m1" /\ StartVerified("i1", v)
  \/ \E s \in LaunchSession, c \in CapIndex : Install(s, c)
  \/ \E c, d \in CapIndex : Derive(c, d)
  \/ \E c \in CapIndex : RemoveCapability(c)
  \/ \E s \in LaunchSession : Discharge(s)

\* Checkpoints of one instance given to another, of its lineage and not.
LineageNext ==
  \/ \E i \in Instance, a \in UsedAdapter, p \in Package, q \in Partition :
       a.env = "linux" /\ (p.granted = {} => i = "i1") /\ BeginCreate(i, a, p, q)
  \/ \E i \in Instance : \/ EndCreate(i) \/ BeginCheckpoint(i) \/ EndCheckpoint(i)
                          \/ Suspend(i) \/ Terminate(i)
  \/ Start("i1", "m1")
  \/ \E i \in Instance, c \in checkpoints : Restore(i, c, "m1")

\* Cells are put where the walk can read them for what they are: headers at aligned
\* offsets, the first one at 0, the rest of a header behind it, a page where one fits.  A
\* buffer whose first segment is too large is refused whatever follows.
MCContainerNext ==
  LET n == Len(container) IN
  /\ n > 2 => container[1].len <= MAX_PAYLOAD
  /\ \E c \in Cell :
       /\ n = 0 => c.kind = "header"
       /\ c.kind = "header" => n % ALIGN = 0
       /\ n > 0 /\ container[n].kind = "header" => c = Other
       /\ c.kind = "footer" => c.consistent \/ c.sig_length <= MAX_SIGNATURE
       /\ c = PageCell => n + PAGE <= MaxCells
       /\ Put(c)

\* The verifier's records among those of one instance.
Verifications == Cardinality({k \in DOMAIN launchLog : launchLog[k].inst = None})
VerifiedNext ==
  /\ LaunchNext
  /\ UNCHANGED caps
  /\ Len(launchLog) < ShortLog
  /\ Verifications' <= 1
  /\ \A k \in DOMAIN launchLog' : launchLog'[k].inst # "i2"

PackagesNext ==
  /\ UNCHANGED part
  /\ \/ /\ part = "pins" /\ PinNext
        /\ UNCHANGED <<sessionVars, streamVars, containerVars, reportVars, framingVars,
                       scannerVars, validatorVars, launchVars, brokerVars>>
     \/ /\ part = "session" /\ SessionNext
        /\ UNCHANGED <<pinVars, streamVars, containerVars, reportVars, framingVars, scannerVars,
                       validatorVars, launchVars, brokerVars>>
     \/ /\ \/ part = "table" /\ TableNext
           \/ part = "stream" /\ StreamNext
        /\ UNCHANGED <<pinVars, sessionVars, containerVars, reportVars, framingVars, scannerVars,
                       validatorVars, launchVars, brokerVars>>
     \/ /\ part = "container" /\ MCContainerNext
        /\ UNCHANGED <<pinVars, sessionVars, streamVars, reportVars, framingVars, scannerVars,
                       validatorVars, launchVars, brokerVars>>
     \/ /\ part = "report" /\ ReportNext
        /\ UNCHANGED <<pinVars, sessionVars, streamVars, containerVars, framingVars, scannerVars,
                       validatorVars, launchVars, brokerVars>>
     \/ /\ part = "framing" /\ FramingNext
        /\ UNCHANGED <<pinVars, sessionVars, streamVars, containerVars, reportVars, scannerVars,
                       validatorVars, launchVars, brokerVars>>
     \/ /\ part = "scanner" /\ ScannerNext
        /\ UNCHANGED <<pinVars, sessionVars, streamVars, containerVars, reportVars, framingVars,
                       validatorVars, launchVars, brokerVars>>
     \/ /\ part = "validator" /\ ValidatorNext
        /\ UNCHANGED <<pinVars, sessionVars, streamVars, containerVars, reportVars, framingVars,
                       scannerVars, launchVars, brokerVars>>
     \/ /\ \/ /\ part = "launch" /\ UNCHANGED caps /\ Len(launchLog) <= ShortLog
              /\ LaunchNext /\ Verifications' = 0
           \/ part = "verified" /\ VerifiedNext
           \/ part = "lineage" /\ LineageNext
           \/ part = "discharge" /\ StreamedNext
        /\ UNCHANGED <<pinVars, sessionVars, streamVars, containerVars, reportVars, framingVars,
                       scannerVars, validatorVars, brokerVars>>
     \/ /\ part = "broker" /\ BrokerNext
        /\ UNCHANGED <<pinVars, sessionVars, streamVars, containerVars, reportVars, framingVars,
                       scannerVars, validatorVars, launchVars>>

varsPackages == <<part, pinVars, sessionVars, streamVars, containerVars, reportVars, framingVars,
                  scannerVars, validatorVars, launchVars, brokerVars>>

PackagesSpec == PackagesInit /\ [][PackagesNext]_varsPackages

-----------------------------------------------------------------------------
(* The properties of the parts. *)

\* Two readers of the same bytes see the same package: the segment table is sound, a
\* built stream arrives, and the buffered and the streamed body are the same; and what
\* one of them still waits for can be sent: its tables are accounted for and some frame
\* is accepted (rvm-rvf: stream/descriptor.rs, stream/builder.rs, stream/buffered.rs,
\* stream/verifier.rs).
StreamsAgree ==
  /\ part = "session" => TablesExact /\ NeverWedged
  /\ part = "table" => TableSound
  /\ part = "stream" => BuiltStreamsArrive /\ BufferedIsTheBody

\* A container is read as segments that tile it; only code that a trusted key signed is
\* admitted, with the grants it declares (rvm-rvf: container.rs, verify.rs).
ContainerSound ==
  /\ part = "container" => WalkReadsTheBuffer
  /\ part = "report" => AdmittedCodeTrusted /\ GrantsAreDeclared

\* The verdict on a module does not depend on how its bytes arrive: framing, the payload
\* scan and the streaming validator (rvm-wasm: lib.rs, streaming.rs; rvm-rvf:
\* wasm_payload.rs), the last with its buffer bounded.
WasmVerdictsHold ==
  /\ part = "framing" => FramedIsSections
  /\ part = "scanner" => ScanSplitIndependent
  /\ part = "validator" => SplitIndependentBelowLimit /\ BufferBounded
=============================================================================
