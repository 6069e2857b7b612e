--------------------------------- MODULE Store ---------------------------------
(***************************************************************************)
(* What Z-checker keeps on disk of one variable and of one compression of  *)
(* it: ZC_writeDataProperty and ZC_loadDataProperty (zc/src/               *)
(* ZC_DataProperty.c), ZC_writeCompressionResult and                       *)
(* ZC_loadCompressionResult (zc/src/ZC_CompareData.c), through             *)
(* ZC_writeStrings (zc/src/ZC_rw.c) and the INI parser.  Programs run one  *)
(* after another over the same directories: they analyse, test or report,  *)
(* each with flags of its own, and any of them may be killed.              *)
(*                                                                         *)
(* A metric is the number of the session that computed it, 0 where it was  *)
(* never computed; an array or a string is that number too, and 0 is NULL. *)
(* Only the two counts are numbers, of width INT.  A file is a function    *)
(* from the keys of its lines, or from the number of the line, to values.  *)
(* Digits lost by printing are not modelled.  The build has neither R nor  *)
(* FFTW, and runs offline.                                                 *)
(***************************************************************************)
EXTENDS Integers, Sequences, Functions

CONSTANTS Shapes,        \* sets of [dim, dataType, numOfElem, compressSize]
          FlagSets,      \* the flags a configuration may set
          INT,           \* half the range of an int
          FFT_SIZE, AUTOCORR_SIZE, PDF_INTERVALS, PDF_INTERVALS_REL,
          Cuts,          \* lines at which the buffer of a stream may be full
          MaxSessions, MaxDeaths

ASSUME WidthAssumption == INT \in Nat \ {0}

(* The Fourier transform takes the largest power of two within a field.    *)
(* There is one for every length, which only an induction would prove.     *)
PowersOfTwo(n) == {2 ^ k : k \in 0 .. n}
ASSUME ShapeAssumption ==
    \A sh \in Shapes :
        /\ sh.numOfElem \in Nat \ {0} /\ sh.compressSize \in Nat
        /\ \E p \in PowersOfTwo(sh.numOfElem) : p <= sh.numOfElem /\ sh.numOfElem < 2 * p
ASSUME SizeAssumption == FFT_SIZE \in Nat /\ PDF_INTERVALS \in Nat \ {0} /\ Cuts \subseteq Nat

VARIABLES shape,     \* the field, the same in every session
          sessions,  \* history: status and flags of each session
          up,        \* a program is running
          property,  \* its entry of ecPropertyTable, or NoRecord
          result,    \* its entry of ecCompareDataTable, or NoRecord
          pending,   \* the files the running call has still to write
          open,      \* the first of them is open and truncated
          disk,      \* the files there are
          fault,     \* what the last program died of
          deaths     \* how many were killed or died
vars == <<shape, sessions, up, property, result, pending, open, disk, fault, deaths>>

NoRecord == <<>>
UNINIT == -2               \* read where nothing was written
MISREAD == -3              \* computed from doubles read as floats
CUT == -4                  \* of the line only the beginning is there, or nothing
session == Len(sessions)
flags == sessions[session].flags
Idle == up /\ pending = <<>>

--------------------------------------------------------------------------------
(* The keys of a property file, always and by flag, and the arrays. *)
Described == {"varName", "dataType", "r5", "r4", "r3", "r2", "r1", "numOfElem",
              "minValue", "maxValue", "valueRange", "avgValue", "entropy"}
Sobolev == {"sobolevNorm_s0_p2", "sobolevNorm_s1_p2", "sobolevNorm_s2_p2"}
Arrays == {"autocorr", "fftCoeff", "lap", "gradLen"}
PropertyFields == Described \cup Sobolev \cup Arrays \cup {"filePath"}

(* The keys of a result file: always, with the images by dimension, and by *)
(* flag.  Field and key differ for ssimDz.                                 *)
Measured == {"varName", "compressTime", "compressRate", "compressRatio", "rate",
    "compressSize", "decompressTime", "decompressRate", "minAbsErr", "avgAbsErr",
    "maxAbsErr", "errAutoCorr", "minRelErr", "avgRelErr", "maxRelErr", "minPWRErr",
    "avgPWRErr", "maxPWRErr", "rmse", "nrmse", "psnr", "snr", "valErrCorr", "pearsonCorr"}
Images(dim) == CASE dim = 1 -> {}
                 [] dim = 2 -> {"ssimImage2D_avg"}
                 [] OTHER -> {"ssimImage2D_min", "ssimImage2D_avg", "ssimImage2D_max"}
Separate == [maxDiff |-> {"maxDx", "maxDy", "maxDz", "maxDt",
                          "maxErrDx", "maxErrDy", "maxErrDz", "maxErrDt"},
             psnr    |-> {"psnrDx", "psnrDy", "psnrDz", "psnrDt"},
             ssim    |-> {"ssimDx", "ssimDy", "ssimDz", "ssimDt"}]
Derived == {"derivativeOrder1_psnr", "derivativeOrder2_psnr", "derivativeOrder1_ssim",
            "derivativeOrder2_ssim", "derivative1_sobolev"}
Derivatives(f) == (UNION {Separate[sep] : sep \in f \cap DOMAIN Separate}) \cup (f \cap Derived)
AllFlags == DOMAIN Separate \cup Derived
Key_Repeated(field) == CASE field = "ssimDz" -> "ddimDz"
                         [] field = "maxErrDz" -> "maxDz"
                         [] OTHER -> field
Key(field) == IF field = "ssimDz" THEN "ddimDz" ELSE field
ResultFields == Measured \cup Images(3) \cup Derivatives(AllFlags)
                \cup {"compressionMode", "absErrPDF", "pwrErrPDF", "autoCorrAbsErr", "fftCoeff"}

FftSize == CHOOSE p \in PowersOfTwo(shape.numOfElem) :
               p <= shape.numOfElem /\ shape.numOfElem < 2 * p

--------------------------------------------------------------------------------
(* ZC_genProperties_*: everything the flags ask for; and the plain entry   *)
(* of ZC_startCmpr_offline.                                                *)
Analysed(s, f) ==
    [k \in PropertyFields |->
        CASE k = "numOfElem" -> shape.numOfElem
          [] k \in Described \ {"numOfElem"} -> s
          [] k \in Sobolev \cup Arrays -> IF k \in f THEN s ELSE 0
          [] OTHER -> 0]
Plain(s) == Analysed(s, {})

(* ZC_moveDataProperty: arrays the target has stay, and of the rest only   *)
(* autocorr and fftCoeff are copied; the Sobolev norms are not.            *)
ZC_moveDataProperty(target, source) ==
    [k \in PropertyFields |->
        CASE k = "varName" -> target[k]
          [] k \in Described \ {"varName"} -> source[k]
          [] k \in {"autocorr", "fftCoeff"} -> IF target[k] = 0 THEN source[k] ELSE target[k]
          [] OTHER -> target[k]]

ZC_genProperties ==
    LET new == Analysed(session, flags)
    IN  IF property = NoRecord THEN new ELSE ZC_moveDataProperty(property, new)

(* The FFT of the difference; the function for double data calls           *)
(* ZC_computeFFT with ZC_FLOAT.                                            *)
ZC_computeFFT_offline(s) == IF shape.dataType = "ZC_DOUBLE" THEN MISREAD ELSE s

(* ZC_endCmpr_offline and ZC_compareData_dec. *)
Compared(s, f) ==
    [k \in ResultFields |->
        CASE k = "compressSize" -> shape.compressSize
          [] k = "errAutoCorr" -> IF "autoCorrAbsErr" \in f THEN s ELSE 0
          [] k \in (Measured \ {"compressSize", "errAutoCorr"}) \cup {"compressionMode"} -> s
          [] k \in Images(3) -> IF k \in Images(shape.dim) THEN s ELSE 0
          [] k \in Derivatives(f) -> s
          [] k \in {"absErrPDF", "pwrErrPDF", "autoCorrAbsErr"} -> IF k \in f THEN s ELSE 0
          [] k = "fftCoeff" -> IF k \in f THEN ZC_computeFFT_offline(s) ELSE 0
          [] OTHER -> 0]

--------------------------------------------------------------------------------
(* The files of a call, in the order it writes them. *)
Lines(fields, record) ==
    [key \in {Key(field) : field \in fields} |->
        record[CHOOSE field \in fields : Key(field) = key]]
FileOf(name, lines) == <<[name |-> name, lines |-> lines]>>
When(condition, files) == IF condition THEN files ELSE <<>>

constructDataPropertyString_NoPath(p) == Lines(Described \cup (Sobolev \cap flags), p)
constructDataPropertyString(p) ==
    Lines(Described \cup (Sobolev \cap flags) \cup {k \in {"autocorr", "filePath"} : p[k] # 0}, p)
constructCompareDataString(c) ==
    Lines(Measured \cup Images(shape.dim) \cup Derivatives(flags) \cup {"compressionMode"}, c)

(* ZC_writeFFTResults prints FFT_SIZE coefficients of an array of FftSize. *)
ZC_writeFFTResults(owner, coeff) ==
    LET printed == [i \in 0 .. FFT_SIZE - 1 |-> IF i < FftSize THEN coeff ELSE UNINIT]
    IN  When(coeff # 0, FileOf(<<owner, "fft">>, printed) \o FileOf(<<owner, "fft.amp">>, printed))

(* AUTOCORR_SIZE + 2 lines are built, AUTOCORR_SIZE of them written, the   *)
(* first of which is a header.                                             *)
ZC_writeDataProperty_MainLast(p) ==
    ZC_writeFFTResults("property", p.fftCoeff)
    \o FileOf(<<"property", "main">>, constructDataPropertyString(p))
ZC_writeDataProperty(p) ==
    FileOf(<<"property", "main">>, constructDataPropertyString(p))
    \o ZC_writeFFTResults("property", p.fftCoeff)
    \o When(p.autocorr # 0,
            FileOf(<<"property", "autocorr">>, [lag \in 0 .. AUTOCORR_SIZE - 2 |-> p.autocorr]))
    \o When(p.lap # 0,
            FileOf(<<"property", "lap">>, [i \in 0 .. shape.numOfElem - 1 |-> p.lap]))
    \o When(p.gradLen # 0,
            FileOf(<<"property", "gradLen">>, [i \in 0 .. shape.numOfElem - 1 |-> p.gradLen]))

(* err_interval is 0 when all errors are equal: of .dis one bin is         *)
(* written, for .pds a line is copied to a pointer that was never set.     *)
Wild == <<"result", "wild">>
ZC_writeCompressionResult(c, constant) ==
    FileOf(<<"result", "main">>, constructCompareDataString(c))
    \o When("absErrPDF" \in flags,
            FileOf(<<"result", "dis">>,
                   [i \in 0 .. (IF constant THEN 0 ELSE PDF_INTERVALS - 1) |-> c.absErrPDF]))
    \o When("pwrErrPDF" \in flags,
            IF constant THEN FileOf(Wild, <<>>)
            ELSE FileOf(<<"result", "pds">>, [i \in 0 .. PDF_INTERVALS_REL - 1 |-> c.pwrErrPDF]))
    \o When("autoCorrAbsErr" \in flags,
            FileOf(<<"result", "autocorr">>, [lag \in 0 .. AUTOCORR_SIZE |-> c.autoCorrAbsErr]))
    \o When("fftCoeff" \in flags, ZC_writeFFTResults("result", c.fftCoeff))
--------------------------------------------------------------------------------
Init ==
    /\ shape \in Shapes
    /\ sessions = <<>> /\ up = FALSE
    /\ property = NoRecord /\ result = NoRecord
    /\ pending = <<>> /\ open = FALSE
    /\ disk = <<>>
    /\ fault = "none" /\ deaths = 0

(* ZC_Init with a configuration: checkingStatus and the flags; those of a  *)
(* report choose only what it plots.                                       *)
ZC_Init ==
    /\ ~up /\ session < MaxSessions
    /\ \E status \in {"ANALYZE_DATA", "PROBE_COMPRESSOR", "COMPARE_COMPRESSOR"}, f \in FlagSets :
          sessions' = Append(sessions,
              [status |-> status, flags |-> IF status = "COMPARE_COMPRESSOR" THEN {} ELSE f])
    /\ up' = TRUE /\ fault' = "none"
    /\ UNCHANGED <<shape, property, result, pending, open, disk, deaths>>

Running(status) == Idle /\ sessions[session].status = status
Stays == UNCHANGED <<shape, sessions, up, open, disk, fault, deaths>>

(* examples/analyzeDataProperty.c sets the path between the two calls. *)
AnalyzeDataProperty ==
    /\ Running("ANALYZE_DATA") /\ property = NoRecord
    /\ property' = [ZC_genProperties EXCEPT !.filePath = session]
    /\ pending' = ZC_writeDataProperty(property')
    /\ UNCHANGED result /\ Stays

ZC_startCmpr ==
    /\ Running("PROBE_COMPRESSOR")
    /\ property' = Plain(session)
    /\ UNCHANGED <<result, pending>> /\ Stays

ZC_startCmpr_offline_withDataAnalysis ==
    /\ Running("PROBE_COMPRESSOR")
    /\ property' = ZC_genProperties
    /\ pending' = ZC_writeDataProperty(property')
    /\ UNCHANGED result /\ Stays

(* A round of ZC_endCmpr and ZC_endDec; the errors may be all equal. *)
ZC_endDec_offline ==
    /\ Running("PROBE_COMPRESSOR") /\ property # NoRecord
    /\ result' = Compared(session, flags)
    /\ \E constant \in BOOLEAN : pending' = ZC_writeCompressionResult(result', constant)
    /\ UNCHANGED property /\ Stays

Gone == up' = FALSE /\ property' = NoRecord /\ result' = NoRecord
        /\ pending' = <<>> /\ open' = FALSE /\ UNCHANGED <<shape, sessions>>
Dies(why) == Gone /\ fault' = why /\ deaths' = deaths + 1

(* ZC_writeStrings: the file is opened for writing, which empties it; of a *)
(* long one fputs delivers the lines so far whenever the buffer of the     *)
(* stream is full, be it within a line; the rest follow when it is closed. *)
(* Main files and autocorrelations are shorter than the buffer.  A line    *)
(* copied to a pointer that was never set comes before its file is opened: *)
(* the program is not followed further, as if it ended there.              *)
Opened_Kept(old) == old
Opened(old) == <<>>
OpenFile ==
    /\ up /\ pending # <<>> /\ ~open /\ Head(pending).name # Wild
    /\ open' = TRUE
    /\ disk' = [name \in DOMAIN disk \cup {Head(pending).name} |->
                   IF name \notin DOMAIN disk THEN <<>>
                   ELSE IF name = Head(pending).name THEN Opened(disk[name]) ELSE disk[name]]
    /\ UNCHANGED <<shape, sessions, up, property, result, pending, fault, deaths>>
Added(new, old) ==
    [key \in DOMAIN new \cup DOMAIN old |-> IF key \in DOMAIN new THEN new[key] ELSE old[key]]
Long == {"fft", "fft.amp", "lap", "gradLen", "dis", "pds"}
Delivered(lines, n) ==
    [i \in {j \in DOMAIN lines : j <= n} |-> IF i < n THEN lines[i] ELSE CUT]
FlushFile ==
    /\ open /\ Head(pending).name[2] \in Long
    /\ \E n \in Cuts \cap DOMAIN Head(pending).lines :
          LET file == Head(pending)
          IN  /\ n \notin DOMAIN disk[file.name]
              /\ disk' = [disk EXCEPT ![file.name] = Added(Delivered(file.lines, n), @)]
    /\ UNCHANGED <<shape, sessions, up, property, result, pending, open, fault, deaths>>
CloseFile ==
    /\ open
    /\ LET file == Head(pending)
       IN  disk' = [disk EXCEPT ![file.name] = Added(file.lines, @)]
    /\ open' = FALSE /\ pending' = Tail(pending)
    /\ UNCHANGED <<shape, sessions, up, property, result, fault, deaths>>
CopyToWildPointer ==
    /\ up /\ pending # <<>> /\ Head(pending).name = Wild
    /\ Dies("wild pointer") /\ UNCHANGED disk

(* Killed between two calls, a program leaves what ZC_Finalize leaves. *)
Crash ==
    /\ up /\ pending # <<>> /\ deaths < MaxDeaths
    /\ Dies("killed") /\ UNCHANGED disk
ZC_Finalize == Idle /\ Gone /\ UNCHANGED <<disk, fault, deaths>>

--------------------------------------------------------------------------------
(* The lookups of the INI parser: iniparser_getint narrows to int. *)
Get(lines, key, default) == IF key \in DOMAIN lines THEN lines[key] ELSE default
iniparser_getint(lines, key, default) == ((Get(lines, key, default) + INT) % (2 * INT)) - INT

ZC_loadDataProperty(lines) ==
    [k \in PropertyFields |->
        CASE k = "numOfElem" -> iniparser_getint(lines, k, 0)
          [] k \in Arrays -> 0
          [] OTHER -> Get(lines, k, 0)]

NotLoaded == {"errAutoCorr", "minPWRErr", "avgPWRErr", "maxPWRErr", "absErrPDF",
              "pwrErrPDF", "autoCorrAbsErr", "fftCoeff"}
ZC_loadCompressionResult(lines) ==
    [k \in ResultFields |->
        CASE k = "compressSize" -> iniparser_getint(lines, k, 0)
          [] k \in NotLoaded -> 0
          [] k \in Derivatives(AllFlags) -> Get(lines, k, -1)
          [] OTHER -> Get(lines, k, 0)]

(* ZC_LoadConf of a report: the property, then the result.  Without a      *)
(* property the program exits; without a filePath createLine gets NULL.    *)
Stored(owner) == <<owner, "main">> \in DOMAIN disk
ZC_LoadConf ==
    /\ Running("COMPARE_COMPRESSOR") /\ property = NoRecord
    /\ Stored("property") /\ "filePath" \in DOMAIN disk[<<"property", "main">>]
    /\ property' = ZC_loadDataProperty(disk[<<"property", "main">>])
    /\ result' = IF Stored("result")
                 THEN ZC_loadCompressionResult(disk[<<"result", "main">>])
                 ELSE NoRecord
    /\ UNCHANGED pending /\ Stays
NoPropertyValues ==
    /\ Running("COMPARE_COMPRESSOR") /\ property = NoRecord
    /\ ~Stored("property")
    /\ Gone /\ UNCHANGED <<disk, fault, deaths>>
CreateLineOfNull ==
    /\ Running("COMPARE_COMPRESSOR") /\ property = NoRecord
    /\ Stored("property") /\ "filePath" \notin DOMAIN disk[<<"property", "main">>]
    /\ Dies("no filePath") /\ UNCHANGED disk

--------------------------------------------------------------------------------
Next == \/ ZC_Init \/ AnalyzeDataProperty \/ ZC_startCmpr
        \/ ZC_startCmpr_offline_withDataAnalysis \/ ZC_endDec_offline
        \/ OpenFile \/ FlushFile \/ CloseFile \/ CopyToWildPointer \/ Crash \/ ZC_Finalize
        \/ ZC_LoadConf \/ NoPropertyValues \/ CreateLineOfNull

Spec == Init /\ [][Next]_vars

--------------------------------------------------------------------------------
(* A file on disk changes only by being emptied, or by getting lines of    *)
(* the record that is being written: no line of an earlier record survives *)
(* beside those of a later one, whoever is killed when.  A main file gets  *)
(* all of them at once; another may get a beginning of them first, and     *)
(* stays with it when the program dies, but no program goes on to its next *)
(* file before this one is whole.  And no file disappears.                 *)
Completed(name) ==
    /\ pending # <<>> /\ name = Head(pending).name
    /\ DOMAIN disk'[name] = DOMAIN Head(pending).lines
    /\ \A key \in DOMAIN Head(pending).lines : disk'[name][key] = Head(pending).lines[key]
Beginning(held, lines) ==
    /\ DOMAIN held \subseteq DOMAIN lines
    /\ \A i \in DOMAIN held :
          /\ \A j \in DOMAIN lines : j < i => j \in DOMAIN held
          /\ held[i] \in {lines[i], CUT}
Begun(name) ==
    /\ pending # <<>> /\ name = Head(pending).name /\ name[2] # "main"
    /\ Beginning(disk'[name], Head(pending).lines)
FilesReplaced ==
    /\ DOMAIN disk \subseteq DOMAIN disk'
    /\ \A name \in DOMAIN disk' :
          \/ name \in DOMAIN disk /\ disk'[name] = disk[name]
          \/ disk'[name] = <<>>
          \/ Completed(name)
          \/ Begun(name)
    /\ pending # <<>> /\ up' /\ pending' # pending =>
          Head(pending).name \in DOMAIN disk' /\ Completed(Head(pending).name)
OnlyOwnLines == [][FilesReplaced]_vars

(* A report works with the whole record of one session.  Of the property:  *)
(* what every session describes and the norms its flags asked for.  Of the *)
(* result too, with -1 for the derivative metrics its flags left out, or   *)
(* nothing at all where a program died while it wrote the file.  Never a   *)
(* mixture of two sessions.  Not claimed: the counts beyond an int,        *)
(* ssimDz, which is stored as ddimDz, and the fields no load reads.        *)
WholeProperty(p, s) ==
    /\ \A k \in (Described \ {"numOfElem"}) \cup {"filePath"} : p[k] = s
    /\ shape.numOfElem < INT => p.numOfElem = shape.numOfElem
    /\ \A k \in Sobolev : p[k] = IF k \in sessions[s].flags THEN s ELSE 0
WholeResult(c, s) ==
    /\ \A k \in Measured \ ({"compressSize"} \cup NotLoaded) : c[k] = s
    /\ c.compressionMode = s
    /\ shape.compressSize < INT => c.compressSize = shape.compressSize
    /\ \A k \in Images(3) : c[k] = IF k \in Images(shape.dim) THEN s ELSE 0
    /\ \A k \in Derivatives(AllFlags) \ {"ssimDz"} :
          c[k] = IF k \in Derivatives(sessions[s].flags) THEN s ELSE -1
LoadedWhole ==
    up /\ sessions[session].status = "COMPARE_COMPRESSOR" /\ property # NoRecord =>
        /\ \E s \in 1 .. session - 1 : WholeProperty(property, s)
        /\ result # NoRecord =>
              \/ \E s \in 1 .. session - 1 : WholeResult(result, s)
              \/ deaths > 0 /\ \A k \in ResultFields : result[k] \in {0, -1}

(* The files beside a main file.  None is of a later session than it: the  *)
(* main file is written first, so a program that dies leaves old files     *)
(* beside a new record, never new ones beside an old record.  And where no *)
(* program died, each that the flags of the main file's session ask for is *)
(* there and of that session, whatever earlier sessions left: the first    *)
(* AUTOCORR_SIZE - 1 lags, all lines of the others, of the Fourier         *)
(* coefficients those there are.                                           *)
Beside(owner, kind, flag, lines, s) ==
    flag \in sessions[s].flags =>
        /\ <<owner, kind>> \in DOMAIN disk
        /\ \A i \in lines : i \in DOMAIN disk[<<owner, kind>>] /\ disk[<<owner, kind>>][i] = s
NoFileAhead ==
    \A name \in DOMAIN disk : name[2] # "main" =>
        LET main == <<name[1], "main">>
        IN  /\ main \in DOMAIN disk
            /\ \/ disk[main] = <<>>
               \/ \A value \in Range(disk[name]) : value <= disk[main].varName
SideFilesOwn ==
    /\ NoFileAhead
    /\ deaths = 0 /\ pending = <<>> =>
        LET coefficients == 0 .. (IF FftSize < FFT_SIZE THEN FftSize ELSE FFT_SIZE) - 1
            elements == 0 .. shape.numOfElem - 1
            writer(owner) == disk[<<owner, "main">>].varName
        IN  /\ Stored("property") => LET s == writer("property") IN
                 /\ Beside("property", "autocorr", "autocorr", 0 .. AUTOCORR_SIZE - 2, s)
                 /\ Beside("property", "fft.amp", "fftCoeff", coefficients, s)
                 /\ sessions[s].status = "ANALYZE_DATA" =>
                       /\ Beside("property", "lap", "lap", elements, s)
                       /\ Beside("property", "gradLen", "gradLen", elements, s)
            /\ Stored("result") => LET s == writer("result") IN
                 /\ Beside("result", "dis", "absErrPDF", {0}, s)
                 /\ Beside("result", "pds", "pwrErrPDF", 0 .. PDF_INTERVALS_REL - 1, s)
                 /\ Beside("result", "autocorr", "autoCorrAbsErr", 0 .. AUTOCORR_SIZE, s)
                 /\ shape.dataType = "ZC_FLOAT" =>
                       Beside("result", "fft.amp", "fftCoeff", coefficients, s)

(* What a program dies of by itself.  A report finds no filePath only in a *)
(* file that an earlier program died writing, or that was written by       *)
(* ZC_startCmpr_offline_withDataAnalysis: what analyzeDataProperty wrote   *)
(* whole can be loaded.  A test dies in writing only for the distribution  *)
(* of the relative errors, and then its main file is already whole.        *)
DeathsExplained ==
    /\ fault = "no filePath" =>
          LET lines == disk[<<"property", "main">>] IN
            \/ lines = <<>> /\ deaths > 1
            \/ lines # <<>> /\ sessions[lines.varName].status = "PROBE_COMPRESSOR"
    /\ fault = "wild pointer" =>
          "pwrErrPDF" \in flags /\ disk[<<"result", "main">>].varName = session
================================================================================
