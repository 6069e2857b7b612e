------------------------------ MODULE Store_proofs -----------------------------
(***************************************************************************)
(* What is on disk, for every field, every flag, any number of sessions    *)
(* and any number of deaths: no file holds lines of two records, a report  *)
(* works with the record of one session, and the files beside a main file  *)
(* are of its session.                                                     *)
(***************************************************************************)
EXTENDS Store, TLAPS

Owners == {"property", "result"}
SideKinds == {"fft", "fft.amp", "autocorr", "lap", "gradLen", "dis", "pds"}
Statuses == {"ANALYZE_DATA", "PROBE_COMPRESSOR", "COMPARE_COMPRESSOR"}
Main(owner) == <<owner, "main">>

(* A file is open only while a program runs that has it still to write,    *)
(* and then it holds a beginning of those lines, a main file none.         *)
(* OnlyOwnLines is not inductive without it: the lines are added to what   *)
(* the file holds.                                                         *)
OpenOwn ==
    open => /\ up /\ pending # <<>>
            /\ Head(pending).name \in DOMAIN disk
            /\ Beginning(disk[Head(pending).name], Head(pending).lines)
            /\ Head(pending).name[2] = "main" => disk[Head(pending).name] = <<>>

(* What session s of the record ses writes to a main file, for a field sh. *)
(* Of a property without a filePath no norm is claimed: the entry of       *)
(* ZC_startCmpr has none, and ZC_moveDataProperty copies none.             *)
PropertyText(lines, s, ses, sh) ==
    /\ \A k \in Described : k \in DOMAIN lines
    /\ \A k \in Described \ {"numOfElem"} : lines[k] = s
    /\ lines["numOfElem"] = sh.numOfElem
    /\ ses.status \in {"ANALYZE_DATA", "PROBE_COMPRESSOR"}
    /\ "filePath" \in DOMAIN lines =>
          /\ ses.status = "ANALYZE_DATA"
          /\ lines["filePath"] = s
          /\ \A k \in Sobolev : /\ k \in DOMAIN lines <=> k \in ses.flags
                                /\ k \in DOMAIN lines => lines[k] = s
    /\ ses.status = "ANALYZE_DATA" => "filePath" \in DOMAIN lines
ResultText(lines, s, ses, sh) ==
    /\ \A k \in Measured \cup {"compressionMode"} : k \in DOMAIN lines
    /\ \A k \in (Measured \ {"compressSize", "errAutoCorr"}) \cup {"compressionMode"} : lines[k] = s
    /\ lines["compressSize"] = sh.compressSize
    /\ ses.status = "PROBE_COMPRESSOR"
    /\ \A k \in Images(3) : /\ k \in DOMAIN lines <=> k \in Images(sh.dim)
                            /\ k \in DOMAIN lines => lines[k] = s
    /\ \A k \in Derivatives(AllFlags) \ {"ssimDz"} :
          /\ k \in DOMAIN lines <=> k \in Derivatives(ses.flags)
          /\ k \in DOMAIN lines => lines[k] = s
MainText(owner, lines, s, ses, sh) ==
    /\ owner = "property" => PropertyText(lines, s, ses, sh)
    /\ owner = "result" => ResultText(lines, s, ses, sh)

(* The files beside it that the flags of ses ask for, and the lines of     *)
(* them SideFilesOwn speaks of.                                            *)
Asked(owner, kind, ses, sh) ==
    \/ owner = "property" /\ kind = "autocorr" /\ "autocorr" \in ses.flags
    \/ owner = "property" /\ kind = "fft.amp" /\ "fftCoeff" \in ses.flags
    \/ owner = "property" /\ kind \in {"lap", "gradLen"} /\ kind \in ses.flags
       /\ ses.status = "ANALYZE_DATA"
    \/ owner = "result" /\ kind = "dis" /\ "absErrPDF" \in ses.flags
    \/ owner = "result" /\ kind = "pds" /\ "pwrErrPDF" \in ses.flags
    \/ owner = "result" /\ kind = "autocorr" /\ "autoCorrAbsErr" \in ses.flags
    \/ owner = "result" /\ kind = "fft.amp" /\ "fftCoeff" \in ses.flags /\ sh.dataType = "ZC_FLOAT"
Indices(owner, kind) ==
    CASE owner = "property" /\ kind = "autocorr" -> 0 .. AUTOCORR_SIZE - 2
      [] owner = "result" /\ kind = "autocorr" -> 0 .. AUTOCORR_SIZE
      [] kind = "fft.amp" -> 0 .. (IF FftSize < FFT_SIZE THEN FftSize ELSE FFT_SIZE) - 1
      [] kind \in {"lap", "gradLen"} -> 0 .. shape.numOfElem - 1
      [] kind = "dis" -> {0}
      [] kind = "pds" -> 0 .. PDF_INTERVALS_REL - 1
Good(owner, kind, lines, s) ==
    \A i \in Indices(owner, kind) : i \in DOMAIN lines /\ lines[i] = s

(* Types, and what there is only while a program runs.                      *)
TypeOK ==
    /\ shape \in Shapes
    /\ sessions \in Seq([status : Statuses, flags : FlagSets \cup {{}}])
    /\ deaths \in Nat
    /\ up => session # 0
    /\ fault # "none" => ~up
    /\ ~up => property = NoRecord /\ result = NoRecord /\ pending = <<>> /\ ~open
    /\ pending \in Seq(Range(pending))

(* The entry a test works with is of its own session, and has no path.     *)
Memory ==
    up /\ sessions[session].status = "PROBE_COMPRESSOR" /\ property # NoRecord =>
        /\ \A k \in Described \ {"numOfElem"} : property[k] = session
        /\ property.numOfElem = shape.numOfElem
        /\ property.filePath = 0
        /\ \A k \in Arrays : property[k] \in {0, session}

(* A file is still to come, or the program is to die before its turn.      *)
Pend(queue, owner, kind) == \E file \in Range(queue) : file.name \in {<<owner, kind>>, Wild}
SideText(owner, kind, lines) ==
    /\ \A x \in DOMAIN lines : x \in Int /\ lines[x] \in Int /\ lines[x] <= session
    /\ Asked(owner, kind, sessions[session], shape) => Good(owner, kind, lines, session)
Queued(owner, file) ==
    /\ file.lines = [x \in DOMAIN file.lines |-> file.lines[x]]
    /\ \/ file.name = Main(owner)
       \/ file.name = Wild /\ owner = "result" /\ "pwrErrPDF" \in flags
       \/ \E kind \in SideKinds : file.name = <<owner, kind>> /\ SideText(owner, kind, file.lines)
(* A call writes the files of one owner, the main file first: as long as   *)
(* that is to be written all the others are too, and once it is written it *)
(* is of the running session.                                              *)
Queue ==
    pending # <<>> =>
        /\ up /\ sessions[session].status # "COMPARE_COMPRESSOR"
        /\ \E owner \in Owners :
              /\ \A file \in Range(pending) : Queued(owner, file)
              /\ \A file \in Range(Tail(pending)) : file.name # Main(owner)
              /\ Head(pending).name = Main(owner) =>
                    /\ MainText(owner, Head(pending).lines, session, sessions[session], shape)
                    /\ \A kind \in SideKinds :
                          Asked(owner, kind, sessions[session], shape) => Pend(pending, owner, kind)
              /\ Head(pending).name # Main(owner) =>
                    /\ Stored(owner) /\ disk[Main(owner)] # <<>>
                    /\ disk[Main(owner)].varName = session
(* A main file is whole, or empty because its writer is at it or died.     *)
Mains ==
    \A owner \in Owners : Stored(owner) =>
        \/ /\ disk[Main(owner)] = <<>>
           /\ deaths > 0 \/ (open /\ Head(pending).name = Main(owner))
        \/ \E s \in 1 .. session : MainText(owner, disk[Main(owner)], s, sessions[s], shape)
(* No file is of a later session than the main file it lies beside.        *)
Sides ==
    /\ \A name \in DOMAIN disk : \E owner \in Owners, kind \in SideKinds \cup {"main"} :
          name = <<owner, kind>>
    /\ \A owner \in Owners, kind \in SideKinds : <<owner, kind>> \in DOMAIN disk =>
          /\ Stored(owner)
          /\ \A x \in DOMAIN disk[<<owner, kind>>] :
                /\ disk[<<owner, kind>>][x] \in Int
                /\ disk[<<owner, kind>>][x] <= session
                /\ \/ disk[Main(owner)] = <<>>
                   \/ disk[<<owner, kind>>][x] <= disk[Main(owner)].varName
(* Without a death, what a main file's session asked for is there or still *)
(* to come.  SideFilesOwn says it only for the moments between two calls.  *)
Required ==
    deaths = 0 => \A owner \in Owners, kind \in SideKinds :
        Stored(owner) /\ disk[Main(owner)] # <<>> =>
        LET s == disk[Main(owner)].varName IN
        Asked(owner, kind, sessions[s], shape) =>
            \/ Pend(pending, owner, kind)
            \/ /\ <<owner, kind>> \in DOMAIN disk
               /\ Good(owner, kind, disk[<<owner, kind>>], s)

IInv == /\ TypeOK /\ OpenOwn /\ Memory /\ Queue /\ Mains /\ Sides /\ Required
        /\ LoadedWhole /\ DeathsExplained

--------------------------------------------------------------------------------
(* Sequences of files. *)

LEMMA SeqOfRange ==
    ASSUME NEW S, NEW p \in Seq(S)
    PROVE  p \in Seq(Range(p)) /\ \A x \in Range(p) : x \in S
<1>1. p = [i \in 1 .. Len(p) |-> p[i]] /\ Len(p) \in Nat
  OBVIOUS
<1>2. \A i \in 1 .. Len(p) : p[i] \in Range(p)
  BY DEF Range
<1> QED
  BY <1>1, <1>2 DEF Range

LEMMA SeqTail ==
    ASSUME NEW S, NEW p \in Seq(S), p # <<>>
    PROVE  /\ Tail(p) \in Seq(S) /\ Head(p) \in S
           /\ Range(p) = {Head(p)} \cup Range(Tail(p))
<1>1. Len(p) \in Nat \ {0} /\ Tail(p) \in Seq(S) /\ Len(Tail(p)) = Len(p) - 1 /\ Head(p) = p[1]
  OBVIOUS
<1>2. \A i \in 1 .. Len(p) - 1 : Tail(p)[i] = p[i + 1]
  OBVIOUS
<1>3. \A i \in 1 .. Len(p) : i = 1 \/ (i - 1 \in 1 .. Len(p) - 1 /\ p[i] = Tail(p)[i - 1])
  BY <1>1, <1>2
<1>4. DOMAIN p = 1 .. Len(p) /\ DOMAIN Tail(p) = 1 .. Len(p) - 1
  BY <1>1
<1>5. \A x : x \in Range(p) <=> x = p[1] \/ x \in Range(Tail(p))
  <2> TAKE x
  <2>1. ASSUME x \in Range(p) PROVE x = p[1] \/ x \in Range(Tail(p))
    <3> PICK i \in 1 .. Len(p) : x = p[i]
      BY <2>1, <1>4 DEF Range
    <3> QED
      BY <1>3, <1>4 DEF Range
  <2>2. ASSUME x \in Range(Tail(p)) PROVE x \in Range(p)
    <3> PICK i \in 1 .. Len(p) - 1 : x = Tail(p)[i]
      BY <2>2, <1>4 DEF Range
    <3>1. x = p[i + 1] /\ i + 1 \in DOMAIN p
      BY <1>1, <1>2, <1>4
    <3> QED
      BY <3>1 DEF Range
  <2>3. p[1] \in Range(p)
    BY <1>1, <1>4 DEF Range
  <2> QED
    BY <2>1, <2>2, <2>3
<1>6. Head(p) \in S
  BY <1>1
<1> QED
  BY <1>1, <1>5, <1>6

LEMMA SeqConcat ==
    ASSUME NEW S, NEW p \in Seq(S), NEW q \in Seq(S)
    PROVE  p \o q \in Seq(S) /\ Range(p \o q) = Range(p) \cup Range(q)
<1>1. /\ Len(p) \in Nat /\ Len(q) \in Nat /\ p \o q \in Seq(S) /\ Len(p \o q) = Len(p) + Len(q)
      /\ DOMAIN p = 1 .. Len(p) /\ DOMAIN q = 1 .. Len(q)
      /\ DOMAIN (p \o q) = 1 .. Len(p) + Len(q)
  OBVIOUS
<1>2. \A i \in 1 .. Len(p) : (p \o q)[i] = p[i] /\ i \in 1 .. Len(p) + Len(q)
  BY <1>1
<1>3. \A i \in 1 .. Len(q) : (p \o q)[Len(p) + i] = q[i] /\ Len(p) + i \in 1 .. Len(p) + Len(q)
  BY <1>1
<1>4. ASSUME NEW x, x \in Range(p \o q) PROVE x \in Range(p) \cup Range(q)
  <2> PICK i \in 1 .. Len(p) + Len(q) : x = (p \o q)[i]
    BY <1>1, <1>4 DEF Range
  <2>1. CASE i \in 1 .. Len(p)
    BY <2>1, <1>1, <1>2 DEF Range
  <2>2. CASE i \notin 1 .. Len(p)
    <3>1. i - Len(p) \in 1 .. Len(q) /\ i = Len(p) + (i - Len(p))
      BY <2>2, <1>1
    <3>2. x = q[i - Len(p)]
      BY <3>1, <1>3
    <3> QED
      BY <3>1, <3>2, <1>1 DEF Range
  <2> QED
    BY <2>1, <2>2
<1>5. ASSUME NEW x, x \in Range(p) PROVE x \in Range(p \o q)
  BY <1>5, <1>1, <1>2 DEF Range
<1>6. ASSUME NEW x, x \in Range(q) PROVE x \in Range(p \o q)
  BY <1>6, <1>1, <1>3 DEF Range
<1> QED
  BY <1>1, <1>4, <1>5, <1>6

(* A batch is a sequence of files of which the first is known.             *)
Batch(S, p, first, others) ==
    p \in Seq(S) /\ p # <<>> /\ Head(p) = first /\ Range(Tail(p)) = others

LEMMA BatchOne ==
    ASSUME NEW S, NEW a \in S PROVE Batch(S, <<a>>, a, {})
<1>1. <<a>> \in Seq(S) /\ <<a>> # <<>> /\ Head(<<a>>) = a /\ Tail(<<a>>) = <<>>
  OBVIOUS
<1>2. Range(<<>>) = {}
  BY DEF Range
<1> QED
  BY <1>1, <1>2 DEF Batch

LEMMA BatchMore ==
    ASSUME NEW S, NEW p, NEW a, NEW R, Batch(S, p, a, R), NEW q \in Seq(S)
    PROVE  Batch(S, p \o q, a, R \cup Range(q))
<1>1. p \in Seq(S) /\ p # <<>> /\ Head(p) = a /\ Range(Tail(p)) = R /\ Tail(p) \in Seq(S)
  BY DEF Batch
<1>2. p \o q \in Seq(S) /\ p \o q # <<>> /\ Head(p \o q) = Head(p)
  BY <1>1
<1>3. Tail(p \o q) = Tail(p) \o q
  BY <1>1
<1>4. Range(Tail(p) \o q) = R \cup Range(q)
  BY <1>1, SeqConcat, ZenonT(40)
<1> QED
  BY <1>1, <1>2, <1>3, <1>4 DEF Batch

--------------------------------------------------------------------------------
(* The main file of a property: every field by its key. *)

LEMMA PowersInt == \A n : \A p \in PowersOfTwo(n) : p \in Int
BY DEF PowersOfTwo

LEMMA KeyOf ==
    ASSUME NEW field, NEW k, k \notin {"ssimDz", "ddimDz"}
    PROVE  Key(field) = k <=> field = k
BY DEF Key

LEMMA LinesOf ==
    ASSUME NEW fields, NEW record, NEW k, k \notin {"ssimDz", "ddimDz"}
    PROVE  /\ k \in DOMAIN Lines(fields, record) <=> k \in fields
           /\ k \in fields => Lines(fields, record)[k] = record[k]
           /\ Lines(fields, record) = [x \in DOMAIN Lines(fields, record) |-> Lines(fields, record)[x]]
<1> DEFINE keys == {Key(field) : field \in fields}
           F == [key \in keys |-> record[CHOOSE field \in fields : Key(field) = key]]
<1>1. Lines(fields, record) = F
  BY DEF Lines
<1>2. DOMAIN F = keys /\ F = [x \in DOMAIN F |-> F[x]]
  OBVIOUS
<1>3. k \in keys <=> k \in fields
  BY KeyOf
<1>4. ASSUME k \in fields PROVE F[k] = record[k]
  <2>1. F[k] = record[CHOOSE field \in fields : Key(field) = k]
    BY <1>3, <1>4
  <2>2. (CHOOSE field \in fields : Key(field) = k) = k
    <3>1. \E field \in fields : Key(field) = k
      BY <1>4, KeyOf
    <3> HIDE DEF F, keys
    <3>2. DEFINE c == CHOOSE field \in fields : Key(field) = k
    <3>3. Key(c) = k
      BY <3>1
    <3> HIDE DEF c
    <3>4. c = k
      BY <3>3, KeyOf
    <3> QED
      BY <3>4 DEF c
  <2> QED
    BY <2>1, <2>2
<1> HIDE DEF F, keys
<1> QED
  BY <1>1, <1>2, <1>3, <1>4

LEMMA AnalysedFields ==
    ASSUME NEW s, NEW f
    PROVE  /\ \A k \in Described \ {"numOfElem"} : Analysed(s, f)[k] = s
           /\ Analysed(s, f)["numOfElem"] = shape.numOfElem
           /\ \A k \in Sobolev \cup Arrays : Analysed(s, f)[k] = IF k \in f THEN s ELSE 0
           /\ Analysed(s, f)["filePath"] = 0
           /\ DOMAIN Analysed(s, f) = PropertyFields
<1>1. ASSUME NEW k \in PropertyFields
      PROVE  Analysed(s, f)[k] = CASE k = "numOfElem" -> shape.numOfElem
                                   [] k \in Described \ {"numOfElem"} -> s
                                   [] k \in Sobolev \cup Arrays -> IF k \in f THEN s ELSE 0
                                   [] OTHER -> 0
  BY DEF Analysed
<1>2. \A k \in Described : k \notin Sobolev /\ k \notin Arrays /\ k # "filePath"
  BY DEF Described, Sobolev, Arrays
<1>3. \A k \in Sobolev \cup Arrays : k \notin Described /\ k # "numOfElem"
  BY DEF Described, Sobolev, Arrays
<1>4. "filePath" \notin Described \cup Sobolev \cup Arrays /\ "numOfElem" \in Described
  BY DEF Described, Sobolev, Arrays
<1>5. \A k : k \in Described \cup Sobolev \cup Arrays \cup {"filePath"} => k \in PropertyFields
  BY DEF PropertyFields
<1>6. ASSUME NEW k \in Described \ {"numOfElem"} PROVE Analysed(s, f)[k] = s
  <2>1. k \in PropertyFields /\ k # "numOfElem" /\ k \notin Sobolev \cup Arrays
    BY <1>2, <1>5
  <2> QED
    BY <1>1, <2>1
<1>7. Analysed(s, f)["numOfElem"] = shape.numOfElem
  <2>1. "numOfElem" \in PropertyFields /\ "numOfElem" \notin Sobolev \cup Arrays
    BY <1>2, <1>4, <1>5
  <2> QED
    BY <1>1, <2>1
<1>8. ASSUME NEW k \in Sobolev \cup Arrays PROVE Analysed(s, f)[k] = IF k \in f THEN s ELSE 0
  BY <1>1, <1>3, <1>5
<1>9. Analysed(s, f)["filePath"] = 0
  BY <1>1, <1>4, <1>5
<1>10. DOMAIN Analysed(s, f) = PropertyFields
  BY DEF Analysed
<1> QED
  BY <1>6, <1>7, <1>8, <1>9, <1>10

LEMMA MovedFields ==
    ASSUME NEW target, NEW source
    PROVE  LET moved == ZC_moveDataProperty(target, source) IN
           /\ moved["varName"] = target["varName"]
           /\ \A k \in Described \ {"varName"} : moved[k] = source[k]
           /\ \A k \in {"autocorr", "fftCoeff"} :
                 moved[k] = IF target[k] = 0 THEN source[k] ELSE target[k]
           /\ \A k \in {"lap", "gradLen", "filePath"} : moved[k] = target[k]
<1> DEFINE moved == ZC_moveDataProperty(target, source)
<1>1. ASSUME NEW k \in PropertyFields
      PROVE  moved[k] = CASE k = "varName" -> target[k]
                          [] k \in Described \ {"varName"} -> source[k]
                          [] k \in {"autocorr", "fftCoeff"} -> IF target[k] = 0 THEN source[k] ELSE target[k]
                          [] OTHER -> target[k]
  BY DEF ZC_moveDataProperty
<1> HIDE DEF moved
<1>2. \A k \in {"autocorr", "fftCoeff", "lap", "gradLen", "filePath"} : k \notin Described /\ k # "varName"
  BY DEF Described
<1>3. \A k : k \in Described \cup Arrays \cup {"filePath"} => k \in PropertyFields
  BY DEF PropertyFields
<1>4. "varName" \in Described /\ {"autocorr", "fftCoeff", "lap", "gradLen"} \subseteq Arrays
  BY DEF Described, Arrays
<1>5. moved["varName"] = target["varName"]
  BY <1>1, <1>3, <1>4
<1>6. ASSUME NEW k \in Described \ {"varName"} PROVE moved[k] = source[k]
  <2>1. k \in PropertyFields /\ k # "varName" /\ k \notin {"autocorr", "fftCoeff"}
    BY <1>2, <1>3
  <2> QED
    BY <1>1, <2>1
<1>7. ASSUME NEW k \in {"autocorr", "fftCoeff"}
      PROVE moved[k] = IF target[k] = 0 THEN source[k] ELSE target[k]
  BY <1>1, <1>2, <1>3, <1>4
<1>8. ASSUME NEW k \in {"lap", "gradLen", "filePath"} PROVE moved[k] = target[k]
  <2>1. k \in PropertyFields /\ k # "varName" /\ k \notin Described /\ k \notin {"autocorr", "fftCoeff"}
    BY <1>2, <1>3, <1>4
  <2> QED
    BY <1>1, <2>1
<1> QED
  BY <1>5, <1>6, <1>7, <1>8 DEF moved

LEMMA PropertyString ==
    ASSUME NEW p,
           \A k \in Described \ {"numOfElem"} : p[k] = session,
           p.numOfElem = shape.numOfElem, session # 0,
           \/ p.filePath = 0 /\ sessions[session].status = "PROBE_COMPRESSOR"
           \/ /\ p.filePath = session /\ sessions[session].status = "ANALYZE_DATA"
              /\ \A k \in Sobolev \cap flags : p[k] = session
    PROVE  PropertyText(constructDataPropertyString(p), session, sessions[session], shape)
<1> DEFINE F == Described \cup (Sobolev \cap flags) \cup {k \in {"autocorr", "filePath"} : p[k] # 0}
           lines == Lines(F, p)
<1>1. constructDataPropertyString(p) = lines
  BY DEF constructDataPropertyString
<1>2. \A k \in Described \cup Sobolev \cup {"filePath"} : k \notin {"ssimDz", "ddimDz"}
  BY DEF Described, Sobolev
<1>3. \A k \in Described \cup Sobolev \cup {"filePath"} :
         /\ k \in DOMAIN lines <=> k \in F
         /\ k \in F => lines[k] = p[k]
  BY <1>2, LinesOf
<1>4. "filePath" \notin Described \cup Sobolev /\ "numOfElem" \in Described
  BY DEF Described, Sobolev
<1>5. \A k \in Sobolev : k \notin Described /\ k \notin {"autocorr", "filePath"}
  BY DEF Described, Sobolev
<1>6. "filePath" \in F <=> p.filePath # 0
  BY <1>4
<1>7. \A k \in Sobolev : k \in F <=> k \in flags
  BY <1>5
<1>8. \A k \in Described : k \in F
  OBVIOUS
<1> HIDE DEF F, lines
<1>9. flags = sessions[session].flags
  BY DEF flags
<1>10. PropertyText(lines, session, sessions[session], shape)
  BY <1>3, <1>4, <1>6, <1>7, <1>8, <1>9 DEF PropertyText
<1> QED
  BY <1>1, <1>10

--------------------------------------------------------------------------------
(* The main file of a result. *)

(* The three dozen keys of a result fall into disjoint groups. *)
Order1 == {"maxDx", "maxDy", "maxDz", "maxDt", "maxErrDx", "maxErrDy", "maxErrDz", "maxErrDt",
           "psnrDx", "psnrDy", "psnrDz", "psnrDt", "ssimDx", "ssimDy", "ssimDz", "ssimDt"}

LEMMA DerivativesNamed ==
    ASSUME NEW f
    PROVE  \A k \in Derivatives(f) : k \in Order1 \cup Derived
<1>1. \A sep \in DOMAIN Separate : \A k \in Separate[sep] : k \in Order1
  <2>1. DOMAIN Separate = {"maxDiff", "psnr", "ssim"}
    BY DEF Separate
  <2>2. \A k \in Separate["maxDiff"] : k \in Order1
    BY DEF Separate, Order1
  <2>3. \A k \in Separate["psnr"] : k \in Order1
    BY DEF Separate, Order1
  <2>4. \A k \in Separate["ssim"] : k \in Order1
    BY DEF Separate, Order1
  <2> QED
    BY <2>1, <2>2, <2>3, <2>4
<1> QED
  <2> SUFFICES ASSUME NEW k \in Derivatives(f), k \notin Derived PROVE k \in Order1
    OBVIOUS
  <2> DEFINE separate == {Separate[sep] : sep \in f \cap DOMAIN Separate}
  <2>0. Derivatives(f) = (UNION separate) \cup (f \cap Derived)
    BY DEF Derivatives
  <2> HIDE DEF separate
  <2>1. k \in UNION separate
    BY <2>0
  <2>2. PICK fields \in separate : k \in fields
    BY <2>1, Zenon
  <2> QED
    BY <1>1, <2>2 DEF separate

LEMMA DerivativesOfAll ==
    ASSUME NEW f
    PROVE  \A k \in Derivatives(f) : k \in Derivatives(AllFlags)
<1>1. DOMAIN Separate \subseteq AllFlags /\ Derived \subseteq AllFlags
  BY DEF AllFlags
<1> QED
  BY <1>1 DEF Derivatives

LEMMA GroupsDisjoint ==
    /\ \A k \in Measured : /\ k \notin Images(3) /\ k \notin Order1 /\ k \notin Derived
                           /\ k \notin {"absErrPDF", "pwrErrPDF", "autoCorrAbsErr", "fftCoeff"}
                           /\ k # "ddimDz" /\ k # "ssimDz" /\ k # "compressionMode"
    /\ \A k \in Images(3) : /\ k \notin Order1 /\ k \notin Derived
                            /\ k \notin {"absErrPDF", "pwrErrPDF", "autoCorrAbsErr", "fftCoeff"}
                            /\ k # "ddimDz" /\ k # "ssimDz" /\ k # "compressionMode"
    /\ \A k \in Order1 \cup Derived :
          /\ k \notin {"absErrPDF", "pwrErrPDF", "autoCorrAbsErr", "fftCoeff"}
          /\ k # "ddimDz" /\ k # "compressionMode"
<1>1. Images(3) = {"ssimImage2D_min", "ssimImage2D_avg", "ssimImage2D_max"}
  BY DEF Images
<1>2. \A k \in Measured : k \notin Images(3) /\ k \notin Order1
  BY <1>1 DEF Measured, Order1
<1>3. \A k \in Measured : /\ k \notin Derived
                          /\ k \notin {"absErrPDF", "pwrErrPDF", "autoCorrAbsErr", "fftCoeff"}
                          /\ k # "ddimDz" /\ k # "ssimDz" /\ k # "compressionMode"
  BY DEF Measured, Derived
<1>4. \A k \in Images(3) : /\ k \notin Order1 /\ k \notin Derived
                           /\ k \notin {"absErrPDF", "pwrErrPDF", "autoCorrAbsErr", "fftCoeff"}
                           /\ k # "ddimDz" /\ k # "ssimDz" /\ k # "compressionMode"
  BY <1>1 DEF Derived, Order1
<1>5. \A k \in Order1 \cup Derived :
          /\ k \notin {"absErrPDF", "pwrErrPDF", "autoCorrAbsErr", "fftCoeff"}
          /\ k # "ddimDz" /\ k # "compressionMode"
  BY DEF Derived, Order1
<1> QED
  BY <1>2, <1>3, <1>4, <1>5

LEMMA ImagesNamed == \A dim : \A k \in Images(dim) : k \in Images(3)
BY DEF Images

LEMMA ComparedFields ==
    ASSUME NEW s, NEW f
    PROVE  LET c == Compared(s, f) IN
           /\ c["compressSize"] = shape.compressSize
           /\ \A k \in (Measured \ {"compressSize", "errAutoCorr"}) \cup {"compressionMode"} : c[k] = s
           /\ \A k \in Images(shape.dim) : c[k] = s
           /\ \A k \in Derivatives(f) : c[k] = s
           /\ \A k \in {"absErrPDF", "pwrErrPDF", "autoCorrAbsErr"} : c[k] = IF k \in f THEN s ELSE 0
           /\ c["fftCoeff"] = IF "fftCoeff" \in f THEN ZC_computeFFT_offline(s) ELSE 0
<1> DEFINE c == Compared(s, f)
           rest == (Measured \ {"compressSize", "errAutoCorr"}) \cup {"compressionMode"}
<1>1. ASSUME NEW k \in ResultFields
      PROVE  c[k] = CASE k = "compressSize" -> shape.compressSize
                      [] k = "errAutoCorr" -> IF "autoCorrAbsErr" \in f THEN s ELSE 0
                      [] k \in rest -> s
                      [] k \in Images(3) -> IF k \in Images(shape.dim) THEN s ELSE 0
                      [] k \in Derivatives(f) -> s
                      [] k \in {"absErrPDF", "pwrErrPDF", "autoCorrAbsErr"} -> IF k \in f THEN s ELSE 0
                      [] k = "fftCoeff" -> IF k \in f THEN ZC_computeFFT_offline(s) ELSE 0
                      [] OTHER -> 0
  BY DEF Compared
<1> HIDE DEF c
<1>2. \A k \in Derivatives(f) : k \in Order1 \cup Derived /\ k \in Derivatives(AllFlags)
  BY DerivativesNamed, DerivativesOfAll
<1>3. \A k : k \in Measured \cup Images(3) \cup Derivatives(AllFlags)
             \cup {"compressionMode", "absErrPDF", "pwrErrPDF", "autoCorrAbsErr", "fftCoeff"}
             => k \in ResultFields
  BY DEF ResultFields
<1>4. "compressSize" \in Measured /\ "errAutoCorr" \in Measured
  BY DEF Measured
<1>5. c["compressSize"] = shape.compressSize
  <2>1. "compressSize" \in ResultFields /\ "compressSize" \notin rest /\ "compressSize" \notin Images(3)
        /\ "compressSize" \notin Derivatives(f)
    BY <1>2, <1>3, <1>4, GroupsDisjoint
  <2> HIDE DEF rest
  <2> QED
    BY <1>1, <2>1
<1>6. ASSUME NEW k \in rest PROVE c[k] = s
  <2>1. /\ k \in ResultFields /\ k \notin {"compressSize", "errAutoCorr"} /\ k \notin Images(3)
        /\ k \notin Derivatives(f)
        /\ k \notin {"absErrPDF", "pwrErrPDF", "autoCorrAbsErr", "fftCoeff"}
    BY <1>2, <1>3, <1>4, GroupsDisjoint
  <2> HIDE DEF rest
  <2> QED
    BY <1>1, <2>1
<1>7. ASSUME NEW k \in Images(shape.dim) PROVE c[k] = s
  <2>1. /\ k \in Images(3)
        /\ k \in ResultFields /\ k \notin {"compressSize", "errAutoCorr"} /\ k \notin rest
        /\ k \notin Derivatives(f)
        /\ k \notin {"absErrPDF", "pwrErrPDF", "autoCorrAbsErr", "fftCoeff"}
    BY <1>2, <1>3, <1>4, GroupsDisjoint, ImagesNamed
  <2> HIDE DEF rest
  <2> QED
    BY <1>1, <2>1
<1>8. ASSUME NEW k \in Derivatives(f) PROVE c[k] = s
  <2>1. /\ k \notin Images(3)
        /\ k \in ResultFields /\ k \notin {"compressSize", "errAutoCorr"} /\ k \notin rest
        /\ k \notin {"absErrPDF", "pwrErrPDF", "autoCorrAbsErr", "fftCoeff"}
    BY <1>2, <1>3, <1>4, GroupsDisjoint
  <2> HIDE DEF rest
  <2> QED
    BY <1>1, <2>1
<1>9. \A k \in {"absErrPDF", "pwrErrPDF", "autoCorrAbsErr", "fftCoeff"} :
        /\ k \notin Images(3)
        /\ k \in ResultFields /\ k \notin {"compressSize", "errAutoCorr"} /\ k \notin rest
        /\ k \notin Derivatives(f)
  BY <1>2, <1>3, <1>4, GroupsDisjoint
<1> HIDE DEF rest
<1>10. ASSUME NEW k \in {"absErrPDF", "pwrErrPDF", "autoCorrAbsErr"}
       PROVE c[k] = IF k \in f THEN s ELSE 0
  BY <1>1, <1>9
<1>11. c["fftCoeff"] = IF "fftCoeff" \in f THEN ZC_computeFFT_offline(s) ELSE 0
  BY <1>1, <1>9
<1> QED
  BY <1>5, <1>6, <1>7, <1>8, <1>10, <1>11 DEF c, rest

LEMMA ResultString ==
    ASSUME sessions[session].status = "PROBE_COMPRESSOR"
    PROVE  ResultText(constructCompareDataString(Compared(session, flags)), session,
                      sessions[session], shape)
<1> DEFINE F == Measured \cup Images(shape.dim) \cup Derivatives(flags) \cup {"compressionMode"}
           c == Compared(session, flags)
           lines == Lines(F, c)
<1>1. constructCompareDataString(c) = lines
  BY DEF constructCompareDataString
<1>2. flags = sessions[session].flags
  BY DEF flags
<1>3. \A k : k \notin {"ssimDz", "ddimDz"} =>
         /\ k \in DOMAIN lines <=> k \in F
         /\ k \in F => lines[k] = c[k]
  BY LinesOf
<1>4. \A k \in Measured \cup {"compressionMode"} : k \notin {"ssimDz", "ddimDz"} /\ k \in F
  BY GroupsDisjoint
<1>5. \A k \in Images(3) : k \notin {"ssimDz", "ddimDz"} /\ (k \in F <=> k \in Images(shape.dim))
  BY GroupsDisjoint, DerivativesNamed
<1>6. \A k \in Derivatives(AllFlags) \ {"ssimDz"} :
         k \notin {"ssimDz", "ddimDz"} /\ (k \in F <=> k \in Derivatives(flags))
  BY GroupsDisjoint, DerivativesNamed, ImagesNamed
<1>7. /\ c["compressSize"] = shape.compressSize
      /\ \A k \in (Measured \ {"compressSize", "errAutoCorr"}) \cup {"compressionMode"} : c[k] = session
      /\ \A k \in Images(shape.dim) : c[k] = session
      /\ \A k \in Derivatives(flags) : c[k] = session
  BY ComparedFields
<1>8. "compressSize" \in Measured
  BY DEF Measured
<1> HIDE DEF F, c, lines
<1>9. \A k \in Measured \cup {"compressionMode"} : k \in DOMAIN lines /\ lines[k] = c[k]
  BY <1>3, <1>4
<1>10. \A k \in Images(3) : /\ k \in DOMAIN lines <=> k \in Images(shape.dim)
                            /\ k \in DOMAIN lines => lines[k] = session
  BY <1>3, <1>5, <1>7
<1>11. \A k \in Derivatives(AllFlags) \ {"ssimDz"} :
          /\ k \in DOMAIN lines <=> k \in Derivatives(flags)
          /\ k \in DOMAIN lines => lines[k] = session
  BY <1>3, <1>6, <1>7
<1>12. ResultText(lines, session, sessions[session], shape)
  BY <1>2, <1>7, <1>8, <1>9, <1>10, <1>11 DEF ResultText
<1> QED
  BY <1>1, <1>12 DEF c

--------------------------------------------------------------------------------
(* What a report reads of a main file. *)

LEMMA ModSmall ==
    ASSUME NEW d \in Nat \ {0}, NEW x \in 0 .. d - 1
    PROVE  x % d = x
OBVIOUS

LEMMA SmallInt ==
    ASSUME NEW n \in Nat, n < INT
    PROVE  ((n + INT) % (2 * INT)) - INT = n
<1>1. 2 * INT \in Nat \ {0} /\ n + INT \in 0 .. 2 * INT - 1
  BY WidthAssumption
<1>2. (n + INT) % (2 * INT) = n + INT
  BY <1>1, ModSmall
<1> QED
  BY <1>2, WidthAssumption

LEMMA LoadedProperty ==
    ASSUME NEW lines, NEW s, shape \in Shapes, "filePath" \in DOMAIN lines,
           PropertyText(lines, s, sessions[s], shape)
    PROVE  WholeProperty(ZC_loadDataProperty(lines), s)
<1> DEFINE p == ZC_loadDataProperty(lines)
<1>1. ASSUME NEW k \in PropertyFields
      PROVE  p[k] = CASE k = "numOfElem" -> iniparser_getint(lines, k, 0)
                      [] k \in Arrays -> 0
                      [] OTHER -> Get(lines, k, 0)
  BY DEF ZC_loadDataProperty
<1> HIDE DEF p
<1>2. \A k \in Described \cup Sobolev \cup {"filePath"} : k \in PropertyFields /\ k \notin Arrays
  BY DEF Described, Sobolev, Arrays, PropertyFields
<1>3. ASSUME NEW k \in Described \cup Sobolev \cup {"filePath"}, k # "numOfElem"
      PROVE  p[k] = IF k \in DOMAIN lines THEN lines[k] ELSE 0
  <2>1. k \in PropertyFields /\ k \notin Arrays
    BY <1>2
  <2>2. p[k] = Get(lines, k, 0)
    BY <1>1, <1>3, <2>1
  <2> QED
    BY <2>2 DEF Get
<1>4. "numOfElem" \in Described /\ "numOfElem" \notin Sobolev \cup {"filePath"}
  BY DEF Described, Sobolev
<1>5. p["numOfElem"] = iniparser_getint(lines, "numOfElem", 0)
  BY <1>1, <1>2, <1>4
<1>6. ASSUME shape.numOfElem < INT PROVE p.numOfElem = shape.numOfElem
  <2>1. Get(lines, "numOfElem", 0) = shape.numOfElem
    BY <1>4 DEF PropertyText, Get
  <2>2. shape.numOfElem \in Nat
    BY ShapeAssumption
  <2> QED
    BY <1>5, <1>6, <2>1, <2>2, SmallInt DEF iniparser_getint
<1>7. \A k \in (Described \ {"numOfElem"}) \cup {"filePath"} : p[k] = s
  BY <1>3, <1>4 DEF PropertyText
<1>8. \A k \in Sobolev : p[k] = IF k \in sessions[s].flags THEN s ELSE 0
  BY <1>3, <1>4 DEF PropertyText
<1> QED
  BY <1>6, <1>7, <1>8 DEF WholeProperty, p

(* The groups of fields a load treats alike. *)
LEMMA LoadedFields ==
    ASSUME NEW lines
    PROVE  LET c == ZC_loadCompressionResult(lines) IN
           /\ c["compressSize"] = iniparser_getint(lines, "compressSize", 0)
           /\ \A k \in Measured \ ({"compressSize"} \cup NotLoaded) : c[k] = Get(lines, k, 0)
           /\ c["compressionMode"] = Get(lines, "compressionMode", 0)
           /\ \A k \in Images(3) : c[k] = Get(lines, k, 0)
           /\ \A k \in Derivatives(AllFlags) : c[k] = Get(lines, k, -1)
           /\ \A k \in NotLoaded : c[k] = 0
<1> DEFINE c == ZC_loadCompressionResult(lines)
<1>1. ASSUME NEW k \in ResultFields
      PROVE  c[k] = CASE k = "compressSize" -> iniparser_getint(lines, k, 0)
                      [] k \in NotLoaded -> 0
                      [] k \in Derivatives(AllFlags) -> Get(lines, k, -1)
                      [] OTHER -> Get(lines, k, 0)
  BY DEF ZC_loadCompressionResult
<1> HIDE DEF c
<1>2. \A k \in Derivatives(AllFlags) : k \in Order1 \cup Derived
  BY DerivativesNamed
<1>3. \A k : k \in Measured \cup Images(3) \cup Derivatives(AllFlags)
             \cup {"compressionMode", "absErrPDF", "pwrErrPDF", "autoCorrAbsErr", "fftCoeff"}
             => k \in ResultFields
  BY DEF ResultFields
<1>4. /\ "compressSize" \in Measured /\ "compressSize" \notin NotLoaded
      /\ \A k \in NotLoaded : k \in Measured \/ k \in {"absErrPDF", "pwrErrPDF", "autoCorrAbsErr", "fftCoeff"}
  BY DEF Measured, NotLoaded
<1>5. c["compressSize"] = iniparser_getint(lines, "compressSize", 0)
  <2>1. "compressSize" \in ResultFields /\ "compressSize" \notin Derivatives(AllFlags)
    BY <1>2, <1>3, <1>4, GroupsDisjoint
  <2> QED
    BY <1>1, <1>4, <2>1
<1>6. ASSUME NEW k \in Measured \ ({"compressSize"} \cup NotLoaded) PROVE c[k] = Get(lines, k, 0)
  <2>1. k \in ResultFields /\ k # "compressSize" /\ k \notin NotLoaded /\ k \notin Derivatives(AllFlags)
    BY <1>2, <1>3, GroupsDisjoint
  <2> QED
    BY <1>1, <2>1
<1>7. c["compressionMode"] = Get(lines, "compressionMode", 0)
  <2>1. /\ "compressionMode" \in ResultFields /\ "compressionMode" \notin Derivatives(AllFlags)
        /\ "compressionMode" \notin NotLoaded
    BY <1>2, <1>3, <1>4, GroupsDisjoint
  <2> QED
    BY <1>1, <2>1
<1>8. ASSUME NEW k \in Images(3) PROVE c[k] = Get(lines, k, 0)
  <2>1. k \in ResultFields /\ k # "compressSize" /\ k \notin NotLoaded /\ k \notin Derivatives(AllFlags)
    BY <1>2, <1>3, <1>4, GroupsDisjoint
  <2> QED
    BY <1>1, <2>1
<1>9. ASSUME NEW k \in Derivatives(AllFlags) PROVE c[k] = Get(lines, k, -1)
  <2>1. k \in ResultFields /\ k # "compressSize" /\ k \notin NotLoaded
    BY <1>2, <1>3, <1>4, GroupsDisjoint
  <2> QED
    BY <1>1, <2>1
<1>10. ASSUME NEW k \in NotLoaded PROVE c[k] = 0
  <2>1. k \in ResultFields /\ k # "compressSize" /\ k \notin Derivatives(AllFlags)
    BY <1>2, <1>3, <1>4, GroupsDisjoint
  <2> QED
    BY <1>1, <2>1
<1> QED
  BY <1>5, <1>6, <1>7, <1>8, <1>9, <1>10 DEF c

LEMMA LoadedResult ==
    ASSUME NEW lines, NEW s, shape \in Shapes, ResultText(lines, s, sessions[s], shape)
    PROVE  WholeResult(ZC_loadCompressionResult(lines), s)
<1> DEFINE c == ZC_loadCompressionResult(lines)
<1>1. /\ c["compressSize"] = iniparser_getint(lines, "compressSize", 0)
      /\ \A k \in Measured \ ({"compressSize"} \cup NotLoaded) : c[k] = Get(lines, k, 0)
      /\ c["compressionMode"] = Get(lines, "compressionMode", 0)
      /\ \A k \in Images(3) : c[k] = Get(lines, k, 0)
      /\ \A k \in Derivatives(AllFlags) : c[k] = Get(lines, k, -1)
  BY LoadedFields
<1> HIDE DEF c
<1>2. "compressSize" \in Measured /\ "errAutoCorr" \in NotLoaded
  BY DEF Measured, NotLoaded
<1>3. \A k \in Measured \ ({"compressSize"} \cup NotLoaded) : c[k] = s
  BY <1>1, <1>2 DEF ResultText, Get
<1>4. c["compressionMode"] = s
  BY <1>1 DEF ResultText, Get
<1>5. ASSUME shape.compressSize < INT PROVE c.compressSize = shape.compressSize
  <2>1. Get(lines, "compressSize", 0) = shape.compressSize
    BY <1>2 DEF ResultText, Get
  <2>2. shape.compressSize \in Nat
    BY ShapeAssumption
  <2> QED
    BY <1>1, <1>5, <2>1, <2>2, SmallInt DEF iniparser_getint
<1>6. \A k \in Images(3) : c[k] = IF k \in Images(shape.dim) THEN s ELSE 0
  BY <1>1 DEF ResultText, Get
<1>7. \A k \in Derivatives(AllFlags) \ {"ssimDz"} :
          c[k] = IF k \in Derivatives(sessions[s].flags) THEN s ELSE -1
  BY <1>1 DEF ResultText, Get
<1> QED
  BY <1>3, <1>4, <1>5, <1>6, <1>7 DEF WholeResult, c

LEMMA LoadedNothing ==
    ASSUME NEW lines, DOMAIN lines = {}
    PROVE  \A k \in ResultFields : ZC_loadCompressionResult(lines)[k] \in {0, -1}
<1> DEFINE c == ZC_loadCompressionResult(lines)
<1>1. /\ c["compressSize"] = iniparser_getint(lines, "compressSize", 0)
      /\ \A k \in Measured \ ({"compressSize"} \cup NotLoaded) : c[k] = Get(lines, k, 0)
      /\ c["compressionMode"] = Get(lines, "compressionMode", 0)
      /\ \A k \in Images(3) : c[k] = Get(lines, k, 0)
      /\ \A k \in Derivatives(AllFlags) : c[k] = Get(lines, k, -1)
      /\ \A k \in NotLoaded : c[k] = 0
  BY LoadedFields
<1> HIDE DEF c
<1>2. \A k, default : Get(lines, k, default) = default
  BY DEF Get
<1>3. iniparser_getint(lines, "compressSize", 0) = 0
  <2>1. 0 \in Nat /\ 0 < INT
    BY WidthAssumption
  <2> QED
    BY <1>2, <2>1, SmallInt DEF iniparser_getint
<1>4. {"absErrPDF", "pwrErrPDF", "autoCorrAbsErr", "fftCoeff"} \subseteq NotLoaded
  BY DEF NotLoaded
<1>5. \A k \in ResultFields :
         k \in Measured \cup Images(3) \cup Derivatives(AllFlags) \cup {"compressionMode"} \cup NotLoaded
  BY <1>4 DEF ResultFields
<1> QED
  BY <1>1, <1>2, <1>3, <1>5 DEF c

--------------------------------------------------------------------------------
(* The files of a call, as a sequence that is known by its first and the  *)
(* set of the others.                                                      *)

File(name, lines) == [name |-> name, lines |-> lines]

LEMMA FileSeq ==
    ASSUME NEW S, NEW name, NEW lines, File(name, lines) \in S
    PROVE  FileOf(name, lines) \in Seq(S) /\ Range(FileOf(name, lines)) = {File(name, lines)}
<1> DEFINE file == File(name, lines)
<1>1. FileOf(name, lines) = <<file>>
  BY DEF FileOf, File
<1> HIDE DEF file
<1>2. <<file>> \in Seq(S)
  BY DEF file
<1>3. DOMAIN <<file>> = {1} /\ <<file>>[1] = file
  OBVIOUS
<1>4. Range(<<file>>) = {file}
  BY <1>3 DEF Range
<1> QED
  BY <1>1, <1>2, <1>4 DEF file

LEMMA NoFiles == Range(<<>>) = {} /\ \A S : <<>> \in Seq(S)
BY DEF Range

FFTLines(coeff) == [i \in 0 .. FFT_SIZE - 1 |-> IF i < FftSize THEN coeff ELSE UNINIT]

LEMMA FFTFiles ==
    ASSUME NEW S, NEW owner, NEW coeff,
           File(<<owner, "fft">>, FFTLines(coeff)) \in S,
           File(<<owner, "fft.amp">>, FFTLines(coeff)) \in S
    PROVE  /\ ZC_writeFFTResults(owner, coeff) \in Seq(S)
           /\ Range(ZC_writeFFTResults(owner, coeff)) =
                 IF coeff # 0 THEN {File(<<owner, "fft">>, FFTLines(coeff)),
                                    File(<<owner, "fft.amp">>, FFTLines(coeff))} ELSE {}
<1> DEFINE q1 == FileOf(<<owner, "fft">>, FFTLines(coeff))
           q2 == FileOf(<<owner, "fft.amp">>, FFTLines(coeff))
           q == q1 \o q2
<1>1. ZC_writeFFTResults(owner, coeff) = When(coeff # 0, q)
  BY DEF ZC_writeFFTResults, FFTLines
<1>2. q1 \in Seq(S) /\ Range(q1) = {File(<<owner, "fft">>, FFTLines(coeff))}
  BY FileSeq
<1>3. q2 \in Seq(S) /\ Range(q2) = {File(<<owner, "fft.amp">>, FFTLines(coeff))}
  BY FileSeq
<1> HIDE DEF q1, q2
<1>4. q \in Seq(S) /\ Range(q) = {File(<<owner, "fft">>, FFTLines(coeff)),
                                  File(<<owner, "fft.amp">>, FFTLines(coeff))}
  <2>1. q \in Seq(S) /\ Range(q) = Range(q1) \cup Range(q2)
    BY <1>2, <1>3, SeqConcat, ZenonT(40)
  <2> HIDE DEF q
  <2> QED
    BY <1>2, <1>3, <2>1
<1> HIDE DEF q
<1> QED
  BY <1>1, <1>4, NoFiles DEF When

(* The files of a property, and of a result. *)
Lags(value) == [lag \in 0 .. AUTOCORR_SIZE - 2 |-> value]
AllLags(value) == [lag \in 0 .. AUTOCORR_SIZE |-> value]
Elements(value) == [i \in 0 .. shape.numOfElem - 1 |-> value]

LEMMA PropertyFiles ==
    ASSUME NEW p
    PROVE  \E S : Batch(S, ZC_writeDataProperty(p),
                    File(<<"property", "main">>, constructDataPropertyString(p)),
                    ((((IF p.fftCoeff # 0 THEN {File(<<"property", "fft">>, FFTLines(p.fftCoeff)),
                                              File(<<"property", "fft.amp">>, FFTLines(p.fftCoeff))} ELSE {})
                    \cup (IF p.autocorr # 0 THEN {File(<<"property", "autocorr">>, Lags(p.autocorr))} ELSE {}))
                    \cup (IF p.lap # 0 THEN {File(<<"property", "lap">>, Elements(p.lap))} ELSE {}))
                    \cup (IF p.gradLen # 0 THEN {File(<<"property", "gradLen">>, Elements(p.gradLen))} ELSE {})))
<1> DEFINE main == File(<<"property", "main">>, constructDataPropertyString(p))
           fft == File(<<"property", "fft">>, FFTLines(p.fftCoeff))
           amp == File(<<"property", "fft.amp">>, FFTLines(p.fftCoeff))
           ac == File(<<"property", "autocorr">>, Lags(p.autocorr))
           lap == File(<<"property", "lap">>, Elements(p.lap))
           grad == File(<<"property", "gradLen">>, Elements(p.gradLen))
           S == {main, fft, amp, ac, lap, grad}
           q1 == FileOf(<<"property", "main">>, constructDataPropertyString(p))
           q2 == ZC_writeFFTResults("property", p.fftCoeff)
           q3 == When(p.autocorr # 0, FileOf(<<"property", "autocorr">>, Lags(p.autocorr)))
           q4 == When(p.lap # 0, FileOf(<<"property", "lap">>, Elements(p.lap)))
           q5 == When(p.gradLen # 0, FileOf(<<"property", "gradLen">>, Elements(p.gradLen)))
<1>1. ZC_writeDataProperty(p) = (((q1 \o q2) \o q3) \o q4) \o q5
  BY DEF ZC_writeDataProperty, Lags, Elements
<1>2. q1 = <<main>>
  BY DEF FileOf, File
<1>0. /\ main \in S /\ fft \in S /\ amp \in S /\ ac \in S /\ lap \in S /\ grad \in S
  OBVIOUS
<1> HIDE DEF S
<1>3. q2 \in Seq(S) /\ Range(q2) = IF p.fftCoeff # 0 THEN {fft, amp} ELSE {}
  BY <1>0, FFTFiles
<1>4. q3 \in Seq(S) /\ Range(q3) = IF p.autocorr # 0 THEN {ac} ELSE {}
  <2> DEFINE f == FileOf(<<"property", "autocorr">>, Lags(p.autocorr))
  <2>1. f \in Seq(S) /\ Range(f) = {File(<<"property", "autocorr">>, Lags(p.autocorr))}
    BY <1>0, FileSeq
  <2> QED
    BY <2>1, NoFiles DEF When
<1>5. q4 \in Seq(S) /\ Range(q4) = IF p.lap # 0 THEN {lap} ELSE {}
  <2> DEFINE f == FileOf(<<"property", "lap">>, Elements(p.lap))
  <2>1. f \in Seq(S) /\ Range(f) = {File(<<"property", "lap">>, Elements(p.lap))}
    BY <1>0, FileSeq
  <2> QED
    BY <2>1, NoFiles DEF When
<1>6. q5 \in Seq(S) /\ Range(q5) = IF p.gradLen # 0 THEN {grad} ELSE {}
  <2> DEFINE f == FileOf(<<"property", "gradLen">>, Elements(p.gradLen))
  <2>1. f \in Seq(S) /\ Range(f) = {File(<<"property", "gradLen">>, Elements(p.gradLen))}
    BY <1>0, FileSeq
  <2> QED
    BY <2>1, NoFiles DEF When
<1> HIDE DEF main, fft, amp, ac, lap, grad, q1, q2, q3, q4, q5
<1>7. Batch(S, q1, main, {})
  BY <1>0, <1>2, BatchOne
<1>8. Batch(S, q1 \o q2, main, {} \cup Range(q2))
  BY <1>3, <1>7, BatchMore
<1>9. Batch(S, (q1 \o q2) \o q3, main, ({} \cup Range(q2)) \cup Range(q3))
  BY <1>4, <1>8, BatchMore
<1>10. Batch(S, ((q1 \o q2) \o q3) \o q4, main, (({} \cup Range(q2)) \cup Range(q3)) \cup Range(q4))
  BY <1>5, <1>9, BatchMore
<1>11. Batch(S, (((q1 \o q2) \o q3) \o q4) \o q5, main,
             ((({} \cup Range(q2)) \cup Range(q3)) \cup Range(q4)) \cup Range(q5))
  BY <1>6, <1>10, BatchMore
<1>12. {} \cup Range(q2) = Range(q2)
  OBVIOUS
<1>13. Batch(S, ZC_writeDataProperty(p), main, ((Range(q2) \cup Range(q3)) \cup Range(q4)) \cup Range(q5))
  BY <1>1, <1>11, <1>12
<1> QED
  BY <1>3, <1>4, <1>5, <1>6, <1>13 DEF main, fft, amp, ac, lap, grad

Bins(constant, value) == [i \in 0 .. (IF constant THEN 0 ELSE PDF_INTERVALS - 1) |-> value]
RelativeBins(value) == [i \in 0 .. PDF_INTERVALS_REL - 1 |-> value]

LEMMA ResultFiles ==
    ASSUME NEW c, NEW constant
    PROVE  \E S : Batch(S, ZC_writeCompressionResult(c, constant),
                    File(<<"result", "main">>, constructCompareDataString(c)),
                    (((IF "absErrPDF" \in flags THEN {File(<<"result", "dis">>, Bins(constant, c.absErrPDF))} ELSE {})
                    \cup (IF "pwrErrPDF" \in flags
                          THEN IF constant THEN {File(Wild, <<>>)}
                               ELSE {File(<<"result", "pds">>, RelativeBins(c.pwrErrPDF))} ELSE {}))
                    \cup (IF "autoCorrAbsErr" \in flags
                          THEN {File(<<"result", "autocorr">>, AllLags(c.autoCorrAbsErr))} ELSE {}))
                    \cup (IF "fftCoeff" \in flags
                          THEN IF c.fftCoeff # 0
                               THEN {File(<<"result", "fft">>, FFTLines(c.fftCoeff)),
                                     File(<<"result", "fft.amp">>, FFTLines(c.fftCoeff))} ELSE {} ELSE {}))
<1> DEFINE main == File(<<"result", "main">>, constructCompareDataString(c))
           dis == File(<<"result", "dis">>, Bins(constant, c.absErrPDF))
           pds == IF constant THEN File(Wild, <<>>) ELSE File(<<"result", "pds">>, RelativeBins(c.pwrErrPDF))
           ac == File(<<"result", "autocorr">>, AllLags(c.autoCorrAbsErr))
           fft == File(<<"result", "fft">>, FFTLines(c.fftCoeff))
           amp == File(<<"result", "fft.amp">>, FFTLines(c.fftCoeff))
           S == {main, dis, pds, ac, fft, amp}
           q1 == FileOf(<<"result", "main">>, constructCompareDataString(c))
           q2 == When("absErrPDF" \in flags, FileOf(<<"result", "dis">>, Bins(constant, c.absErrPDF)))
           f3 == IF constant THEN FileOf(Wild, <<>>)
                 ELSE FileOf(<<"result", "pds">>, RelativeBins(c.pwrErrPDF))
           q3 == When("pwrErrPDF" \in flags, f3)
           q4 == When("autoCorrAbsErr" \in flags,
                      FileOf(<<"result", "autocorr">>, AllLags(c.autoCorrAbsErr)))
           f5 == ZC_writeFFTResults("result", c.fftCoeff)
           q5 == When("fftCoeff" \in flags, f5)
<1>1. ZC_writeCompressionResult(c, constant) = (((q1 \o q2) \o q3) \o q4) \o q5
  BY DEF ZC_writeCompressionResult, Bins, RelativeBins, AllLags
<1>2. q1 = <<main>>
  BY DEF FileOf, File
<1>0. /\ main \in S /\ fft \in S /\ amp \in S /\ ac \in S /\ dis \in S /\ pds \in S
  OBVIOUS
<1> HIDE DEF S
<1>3. q2 \in Seq(S) /\ Range(q2) = IF "absErrPDF" \in flags THEN {dis} ELSE {}
  <2> DEFINE f == FileOf(<<"result", "dis">>, Bins(constant, c.absErrPDF))
  <2>1. f \in Seq(S) /\ Range(f) = {File(<<"result", "dis">>, Bins(constant, c.absErrPDF))}
    BY <1>0, FileSeq
  <2> QED
    BY <2>1, NoFiles DEF When
<1>4. q3 \in Seq(S) /\ Range(q3) = IF "pwrErrPDF" \in flags THEN {pds} ELSE {}
  <2>1. f3 \in Seq(S) /\ Range(f3) = {pds}
    BY <1>0, FileSeq
  <2> HIDE DEF f3, pds
  <2> QED
    BY <2>1, NoFiles DEF When
<1>5. q4 \in Seq(S) /\ Range(q4) = IF "autoCorrAbsErr" \in flags THEN {ac} ELSE {}
  <2> DEFINE f == FileOf(<<"result", "autocorr">>, AllLags(c.autoCorrAbsErr))
  <2>1. f \in Seq(S) /\ Range(f) = {File(<<"result", "autocorr">>, AllLags(c.autoCorrAbsErr))}
    BY <1>0, FileSeq
  <2> QED
    BY <2>1, NoFiles DEF When
<1>6. q5 \in Seq(S) /\ Range(q5) = IF "fftCoeff" \in flags
                                   THEN IF c.fftCoeff # 0 THEN {fft, amp} ELSE {} ELSE {}
  <2>1. f5 \in Seq(S) /\ Range(f5) = IF c.fftCoeff # 0 THEN {fft, amp} ELSE {}
    BY <1>0, FFTFiles
  <2> HIDE DEF f5, fft, amp
  <2> QED
    BY <2>1, NoFiles DEF When
<1> HIDE DEF main, dis, pds, ac, fft, amp, q1, q2, q3, q4, q5, f3, f5
<1>7. Batch(S, q1, main, {})
  BY <1>0, <1>2, BatchOne
<1>8. Batch(S, q1 \o q2, main, {} \cup Range(q2))
  BY <1>3, <1>7, BatchMore
<1>9. Batch(S, (q1 \o q2) \o q3, main, ({} \cup Range(q2)) \cup Range(q3))
  BY <1>4, <1>8, BatchMore
<1>10. Batch(S, ((q1 \o q2) \o q3) \o q4, main, (({} \cup Range(q2)) \cup Range(q3)) \cup Range(q4))
  BY <1>5, <1>9, BatchMore
<1>11. Batch(S, (((q1 \o q2) \o q3) \o q4) \o q5, main,
             ((({} \cup Range(q2)) \cup Range(q3)) \cup Range(q4)) \cup Range(q5))
  BY <1>6, <1>10, BatchMore
<1>12. {} \cup Range(q2) = Range(q2)
  OBVIOUS
<1>13. Batch(S, ZC_writeCompressionResult(c, constant), main,
             ((Range(q2) \cup Range(q3)) \cup Range(q4)) \cup Range(q5))
  BY <1>1, <1>11, <1>12
<1>14. ((Range(q2) \cup Range(q3)) \cup Range(q4)) \cup Range(q5) =
       (((IF "absErrPDF" \in flags THEN {dis} ELSE {})
       \cup (IF "pwrErrPDF" \in flags THEN {pds} ELSE {}))
       \cup (IF "autoCorrAbsErr" \in flags THEN {ac} ELSE {}))
       \cup (IF "fftCoeff" \in flags THEN IF c.fftCoeff # 0 THEN {fft, amp} ELSE {} ELSE {})
  BY <1>3, <1>4, <1>5, <1>6
<1>15. (IF "pwrErrPDF" \in flags THEN {pds} ELSE {}) =
       (IF "pwrErrPDF" \in flags THEN IF constant THEN {File(Wild, <<>>)}
                               ELSE {File(<<"result", "pds">>, RelativeBins(c.pwrErrPDF))} ELSE {})
  BY DEF pds
<1> QED
  BY <1>13, <1>14, <1>15 DEF main, dis, ac, fft, amp

--------------------------------------------------------------------------------
(* What a call leaves to be written satisfies the invariant. *)

(* What a call leaves to be written: the main file first.                  *)
Fresh(owner, queue) ==
    /\ queue \in Seq(Range(queue)) /\ queue # <<>>
    /\ \A file \in Range(queue) : Queued(owner, file)
    /\ \A file \in Range(Tail(queue)) : file.name # Main(owner)
    /\ Head(queue).name = Main(owner)
    /\ MainText(owner, Head(queue).lines, session, sessions[session], shape)
    /\ \A kind \in SideKinds :
          Asked(owner, kind, sessions[session], shape) => Pend(queue, owner, kind)

LEMMA FftSizeInt == shape \in Shapes => FftSize \in Int
BY PowersInt, ShapeAssumption DEF FftSize

LEMMA FileFields ==
    ASSUME NEW name, NEW lines
    PROVE  File(name, lines).name = name /\ File(name, lines).lines = lines
BY DEF File

LEMMA ConstantSide ==
    ASSUME session \in Nat, NEW value \in Int, value <= session, NEW last,
           NEW owner \in Owners, NEW kind \in SideKinds,
           Asked(owner, kind, sessions[session], shape) =>
               value = session /\ Indices(owner, kind) \subseteq 0 .. last
    PROVE  Queued(owner, File(<<owner, kind>>, [x \in 0 .. last |-> value]))
<1> DEFINE lines == [x \in 0 .. last |-> value]
           file == File(<<owner, kind>>, lines)
<1>1. file.name = <<owner, kind>> /\ file.lines = lines
  BY FileFields
<1>2. /\ lines = [x \in DOMAIN lines |-> lines[x]] /\ DOMAIN lines = 0 .. last
      /\ \A x \in 0 .. last : x \in Int /\ lines[x] = value
  OBVIOUS
<1> HIDE DEF lines, file
<1>3. SideText(owner, kind, lines)
  BY <1>2 DEF SideText, Good
<1> QED
  BY <1>1, <1>2, <1>3 DEF Queued, lines, file

LEMMA FFTSide ==
    ASSUME session \in Nat, shape \in Shapes, NEW value \in Int, value <= session,
           NEW owner \in Owners, NEW kind \in {"fft", "fft.amp"},
           Asked(owner, kind, sessions[session], shape) => value = session
    PROVE  Queued(owner, File(<<owner, kind>>, FFTLines(value)))
<1> DEFINE lines == FFTLines(value)
           file == File(<<owner, kind>>, lines)
<1>1. file.name = <<owner, kind>> /\ file.lines = lines
  BY FileFields
<1>2. /\ lines = [x \in DOMAIN lines |-> lines[x]] /\ DOMAIN lines = 0 .. FFT_SIZE - 1
      /\ \A x \in 0 .. FFT_SIZE - 1 : lines[x] = IF x < FftSize THEN value ELSE UNINIT
  BY DEF FFTLines
<1> HIDE DEF lines, file
<1>3. UNINIT \in Int /\ UNINIT <= session
  BY DEF UNINIT
<1>4. FftSize \in Int /\ FFT_SIZE \in Nat
  BY FftSizeInt, SizeAssumption
<1>5. \A x \in DOMAIN lines : x \in Int /\ lines[x] \in Int /\ lines[x] <= session
  BY <1>2, <1>3
<1>6. ASSUME Asked(owner, kind, sessions[session], shape) PROVE Good(owner, kind, lines, session)
  <2>1. kind = "fft.amp" /\ value = session
    BY <1>6 DEF Asked
  <2>2. Indices(owner, kind) = 0 .. (IF FftSize < FFT_SIZE THEN FftSize ELSE FFT_SIZE) - 1
    BY <2>1 DEF Indices
  <2>3. \A i \in Indices(owner, kind) : i \in 0 .. FFT_SIZE - 1 /\ i < FftSize
    BY <1>4, <2>2
  <2> QED
    BY <1>2, <2>1, <2>3 DEF Good
<1>7. SideText(owner, kind, lines)
  BY <1>5, <1>6 DEF SideText
<1>8. kind \in SideKinds
  BY DEF SideKinds
<1> QED
  BY <1>1, <1>2, <1>7, <1>8 DEF Queued, lines, file

LEMMA MainQueued ==
    ASSUME NEW owner, NEW lines, lines = [x \in DOMAIN lines |-> lines[x]]
    PROVE  Queued(owner, File(Main(owner), lines))
BY FileFields DEF Queued

LEMMA NewProperty ==
    ASSUME NEW p, session \in Nat \ {0}, shape \in Shapes,
           \A k \in Described \ {"numOfElem"} : p[k] = session,
           p.numOfElem = shape.numOfElem,
           \/ p.filePath = 0 /\ sessions[session].status = "PROBE_COMPRESSOR"
           \/ /\ p.filePath = session /\ sessions[session].status = "ANALYZE_DATA"
              /\ \A k \in Sobolev \cap flags : p[k] = session
              /\ \A k \in {"lap", "gradLen"} \cap flags : p[k] = session,
           \A k \in Arrays : p[k] \in {0, session},
           \A k \in {"autocorr", "fftCoeff"} \cap flags : p[k] = session
    PROVE  Fresh("property", ZC_writeDataProperty(p))
<1> DEFINE queue == ZC_writeDataProperty(p)
           main == File(<<"property", "main">>, constructDataPropertyString(p))
           fft == File(<<"property", "fft">>, FFTLines(p.fftCoeff))
           amp == File(<<"property", "fft.amp">>, FFTLines(p.fftCoeff))
           ac == File(<<"property", "autocorr">>, Lags(p.autocorr))
           lap == File(<<"property", "lap">>, Elements(p.lap))
           grad == File(<<"property", "gradLen">>, Elements(p.gradLen))
           R == ((((IF p.fftCoeff # 0 THEN {fft, amp} ELSE {})
                \cup (IF p.autocorr # 0 THEN {ac} ELSE {}))
                \cup (IF p.lap # 0 THEN {lap} ELSE {}))
                \cup (IF p.gradLen # 0 THEN {grad} ELSE {}))
<1>1. PICK S : Batch(S, queue, main, R)
  BY PropertyFiles
<1> DEFINE asked(kind) == Asked("property", kind, sessions[session], shape)
<1>2. flags = sessions[session].flags
  BY DEF flags
<1>3. /\ p.fftCoeff \in {0, session} /\ p.autocorr \in {0, session}
      /\ p.lap \in {0, session} /\ p.gradLen \in {0, session}
  BY DEF Arrays
<1>4. /\ asked("fft.amp") => p.fftCoeff = session
      /\ asked("autocorr") => p.autocorr = session
      /\ asked("lap") => p.lap = session
      /\ asked("gradLen") => p.gradLen = session
      /\ ~asked("fft") /\ ~asked("dis") /\ ~asked("pds")
  BY <1>2 DEF Asked
<1>5. "property" \in Owners /\ {"fft", "fft.amp", "autocorr", "lap", "gradLen"} \subseteq SideKinds
  BY DEF Owners, SideKinds
<1>6. Queued("property", fft) /\ Queued("property", amp)
  <2>1. p.fftCoeff \in Int /\ p.fftCoeff <= session
    BY <1>3
  <2> QED
    BY <1>4, <1>5, <2>1, FFTSide
<1>7. Queued("property", ac)
  <2>1. p.autocorr \in Int /\ p.autocorr <= session
    BY <1>3
  <2>2. Indices("property", "autocorr") = 0 .. AUTOCORR_SIZE - 2
    BY DEF Indices
  <2> QED
    BY <1>4, <1>5, <2>1, <2>2, ConstantSide DEF Lags
<1>8. Queued("property", lap)
  <2>1. p.lap \in Int /\ p.lap <= session
    BY <1>3
  <2>2. Indices("property", "lap") = 0 .. shape.numOfElem - 1
    BY DEF Indices
  <2> QED
    BY <1>4, <1>5, <2>1, <2>2, ConstantSide DEF Elements
<1>9. Queued("property", grad)
  <2>1. p.gradLen \in Int /\ p.gradLen <= session
    BY <1>3
  <2>2. Indices("property", "gradLen") = 0 .. shape.numOfElem - 1
    BY DEF Indices
  <2> QED
    BY <1>4, <1>5, <2>1, <2>2, ConstantSide DEF Elements
<1>10. PropertyText(constructDataPropertyString(p), session, sessions[session], shape)
  <2>1. session # 0
    OBVIOUS
  <2> QED
    BY <2>1, PropertyString
<1>11. constructDataPropertyString(p) = [x \in DOMAIN constructDataPropertyString(p) |->
                                            constructDataPropertyString(p)[x]]
  BY DEF constructDataPropertyString, Lines
<1>12. Queued("property", main)
  BY <1>11, MainQueued DEF Main
<1>13. main.name = Main("property") /\ main.lines = constructDataPropertyString(p)
  BY FileFields DEF Main
<1>14. /\ fft.name = <<"property", "fft">> /\ amp.name = <<"property", "fft.amp">>
       /\ ac.name = <<"property", "autocorr">> /\ lap.name = <<"property", "lap">>
       /\ grad.name = <<"property", "gradLen">>
  BY FileFields
<1>15. \A file \in R : Queued("property", file) /\ file.name # Main("property")
  <2> HIDE DEF fft, amp, ac, lap, grad
  <2> QED
    BY <1>6, <1>7, <1>8, <1>9, <1>14 DEF Main
<1>16. /\ asked("fft.amp") => amp \in R
       /\ asked("autocorr") => ac \in R
       /\ asked("lap") => lap \in R
       /\ asked("gradLen") => grad \in R
  <2> HIDE DEF fft, amp, ac, lap, grad
  <2> QED
    BY <1>4
<1> HIDE DEF R, fft, amp, ac, lap, grad, main, queue
<1>17. /\ queue \in Seq(S) /\ queue # <<>> /\ Head(queue) = main /\ Range(Tail(queue)) = R
  BY <1>1 DEF Batch
<1>18. queue \in Seq(Range(queue)) /\ Range(queue) = {main} \cup R
  BY <1>17, SeqOfRange, SeqTail
<1>19. ASSUME NEW kind \in SideKinds, asked(kind) PROVE Pend(queue, "property", kind)
  <2>1. kind \in {"fft.amp", "autocorr", "lap", "gradLen"}
    BY <1>4, <1>19 DEF SideKinds
  <2>2. \E file \in R : file.name = <<"property", kind>>
    BY <1>14, <1>16, <1>19, <2>1
  <2> QED
    BY <1>18, <2>2 DEF Pend
<1>20. MainText("property", main.lines, session, sessions[session], shape)
  BY <1>10, <1>13 DEF MainText
<1> QED
  BY <1>12, <1>13, <1>15, <1>17, <1>18, <1>19, <1>20 DEF Fresh, queue

LEMMA NewResult ==
    ASSUME session \in Nat \ {0}, shape \in Shapes, NEW constant \in BOOLEAN,
           sessions[session].status = "PROBE_COMPRESSOR"
    PROVE  Fresh("result", ZC_writeCompressionResult(Compared(session, flags), constant))
<1> DEFINE c == Compared(session, flags)
           queue == ZC_writeCompressionResult(c, constant)
           main == File(<<"result", "main">>, constructCompareDataString(c))
           dis == File(<<"result", "dis">>, Bins(constant, c.absErrPDF))
           wild == File(Wild, <<>>)
           pds == File(<<"result", "pds">>, RelativeBins(c.pwrErrPDF))
           ac == File(<<"result", "autocorr">>, AllLags(c.autoCorrAbsErr))
           fft == File(<<"result", "fft">>, FFTLines(c.fftCoeff))
           amp == File(<<"result", "fft.amp">>, FFTLines(c.fftCoeff))
           R == (((IF "absErrPDF" \in flags THEN {dis} ELSE {})
                \cup (IF "pwrErrPDF" \in flags THEN IF constant THEN {wild} ELSE {pds} ELSE {}))
                \cup (IF "autoCorrAbsErr" \in flags THEN {ac} ELSE {}))
                \cup (IF "fftCoeff" \in flags
                      THEN IF c.fftCoeff # 0 THEN {fft, amp} ELSE {} ELSE {})
<1>1. PICK S : Batch(S, queue, main, R)
  BY ResultFiles
<1> DEFINE asked(kind) == Asked("result", kind, sessions[session], shape)
<1>2. flags = sessions[session].flags
  BY DEF flags
<1>3. /\ "absErrPDF" \in flags => c.absErrPDF = session
      /\ "pwrErrPDF" \in flags => c.pwrErrPDF = session
      /\ "autoCorrAbsErr" \in flags => c.autoCorrAbsErr = session
      /\ "fftCoeff" \in flags => c.fftCoeff = ZC_computeFFT_offline(session)
  BY ComparedFields
<1>4. /\ asked("dis") <=> "absErrPDF" \in flags
      /\ asked("pds") <=> "pwrErrPDF" \in flags
      /\ asked("autocorr") <=> "autoCorrAbsErr" \in flags
      /\ asked("fft.amp") => "fftCoeff" \in flags /\ shape.dataType = "ZC_FLOAT"
      /\ ~asked("fft") /\ ~asked("lap") /\ ~asked("gradLen")
  BY <1>2 DEF Asked
<1>5. "result" \in Owners /\ {"fft", "fft.amp", "autocorr", "dis", "pds"} \subseteq SideKinds
  BY DEF Owners, SideKinds
<1>6. session \in Int /\ session \in Nat /\ session <= session
  OBVIOUS
<1> HIDE DEF c
<1>7. ASSUME "fftCoeff" \in flags
      PROVE  Queued("result", fft) /\ Queued("result", amp) /\ (asked("fft.amp") => c.fftCoeff # 0)
  <2>1. /\ c.fftCoeff \in Int /\ c.fftCoeff <= session
        /\ shape.dataType = "ZC_FLOAT" => c.fftCoeff = session
    BY <1>3, <1>6, <1>7 DEF ZC_computeFFT_offline, MISREAD
  <2> QED
    BY <1>4, <1>5, <1>6, <2>1, FFTSide
<1>8. ASSUME "autoCorrAbsErr" \in flags PROVE Queued("result", ac)
  <2>1. Indices("result", "autocorr") = 0 .. AUTOCORR_SIZE
    BY DEF Indices
  <2> QED
    BY <1>3, <1>5, <1>6, <1>8, <2>1, ConstantSide DEF AllLags
<1>9. ASSUME "absErrPDF" \in flags PROVE Queued("result", dis)
  <2>1. Indices("result", "dis") = {0}
    BY DEF Indices
  <2>2. 0 \in 0 .. (IF constant THEN 0 ELSE PDF_INTERVALS - 1)
    BY SizeAssumption
  <2>3. Indices("result", "dis") \subseteq 0 .. (IF constant THEN 0 ELSE PDF_INTERVALS - 1)
    BY <2>1, <2>2
  <2>4. c.absErrPDF = session
    BY <1>3, <1>9
  <2> DEFINE last == IF constant THEN 0 ELSE PDF_INTERVALS - 1
  <2>5. Bins(constant, c.absErrPDF) = [x \in 0 .. last |-> session] /\ Indices("result", "dis") \subseteq 0 .. last
    BY <2>3, <2>4 DEF Bins
  <2> HIDE DEF last
  <2>6. Queued("result", File(<<"result", "dis">>, [x \in 0 .. last |-> session]))
    BY <1>5, <1>6, <2>5, ConstantSide
  <2> QED
    BY <2>5, <2>6
<1>10. ASSUME "pwrErrPDF" \in flags PROVE Queued("result", pds) /\ Queued("result", wild)
  <2>1. Indices("result", "pds") = 0 .. PDF_INTERVALS_REL - 1
    BY DEF Indices
  <2>2. Queued("result", pds)
    BY <1>3, <1>5, <1>6, <1>10, <2>1, ConstantSide DEF RelativeBins
  <2>3. wild.name = Wild /\ wild.lines = <<>>
    BY FileFields
  <2>4. <<>> = [x \in DOMAIN <<>> |-> <<>>[x]]
    OBVIOUS
  <2>5. Queued("result", wild)
    BY <1>10, <2>3, <2>4 DEF Queued
  <2> QED
    BY <2>2, <2>5
<1>11. ResultText(constructCompareDataString(c), session, sessions[session], shape)
  BY ResultString DEF c
<1>12. constructCompareDataString(c) = [x \in DOMAIN constructCompareDataString(c) |->
                                            constructCompareDataString(c)[x]]
  BY DEF constructCompareDataString, Lines
<1>13. Queued("result", main)
  BY <1>12, MainQueued DEF Main
<1>14. main.name = Main("result") /\ main.lines = constructCompareDataString(c)
  BY FileFields DEF Main
<1>15. /\ fft.name = <<"result", "fft">> /\ amp.name = <<"result", "fft.amp">>
       /\ ac.name = <<"result", "autocorr">> /\ dis.name = <<"result", "dis">>
       /\ pds.name = <<"result", "pds">> /\ wild.name = Wild
  BY FileFields
<1> HIDE DEF fft, amp, ac, dis, pds, wild
<1>16. \A file \in R : Queued("result", file) /\ file.name # Main("result")
  BY <1>7, <1>8, <1>9, <1>10, <1>15 DEF Main, Wild
<1>17. /\ asked("fft.amp") => amp \in R
       /\ asked("autocorr") => ac \in R
       /\ asked("dis") => dis \in R
       /\ asked("pds") => pds \in R \/ wild \in R
  BY <1>4, <1>7
<1> HIDE DEF R, main, queue
<1>18. /\ queue \in Seq(S) /\ queue # <<>> /\ Head(queue) = main /\ Range(Tail(queue)) = R
  BY <1>1 DEF Batch
<1>19. queue \in Seq(Range(queue)) /\ Range(queue) = {main} \cup R
  BY <1>18, SeqOfRange, SeqTail
<1>20. ASSUME NEW kind \in SideKinds, asked(kind) PROVE Pend(queue, "result", kind)
  <2>1. kind \in {"fft.amp", "autocorr", "dis", "pds"}
    BY <1>4, <1>20 DEF SideKinds
  <2>2. \E file \in R : file.name \in {<<"result", kind>>, Wild}
    BY <1>15, <1>17, <1>20, <2>1
  <2> QED
    BY <1>19, <2>2 DEF Pend
<1>21. MainText("result", main.lines, session, sessions[session], shape)
  BY <1>11, <1>14 DEF MainText
<1> QED
  BY <1>13, <1>14, <1>16, <1>18, <1>19, <1>20, <1>21 DEF Fresh, queue, c

--------------------------------------------------------------------------------
(* What a step leaves as it was. *)

LEMMA MainVarName ==
    ASSUME NEW owner \in Owners, NEW lines, NEW s, NEW ses, NEW sh,
           MainText(owner, lines, s, ses, sh)
    PROVE  lines.varName = s /\ lines # <<>>
<1>1. "varName" \in Described /\ "varName" # "numOfElem"
  BY DEF Described
<1>2. "varName" \in Measured /\ "varName" # "compressSize" /\ "varName" # "errAutoCorr"
  BY DEF Measured
<1>3. "varName" \in DOMAIN lines /\ lines["varName"] = s
  <2>1. CASE owner = "property"
    BY <1>1, <2>1 DEF MainText, PropertyText
  <2>2. CASE owner = "result"
    BY <1>2, <2>2 DEF MainText, ResultText
  <2> QED
    BY <2>1, <2>2 DEF Owners
<1> QED
  BY <1>3

LEMMA Typed ==
    ASSUME TypeOK
    PROVE  /\ session \in Nat
           /\ up => session \in Nat \ {0} /\ fault = "none"
           /\ \A s \in 1 .. session : sessions[s].status \in Statuses
<1> DEFINE records == [status : Statuses, flags : FlagSets \cup {{}}]
<1>1. /\ sessions \in Seq(records)
      /\ up => session # 0 /\ fault = "none"
  BY DEF TypeOK
<1>2. \A r \in records : r.status \in Statuses
  OBVIOUS
<1> HIDE DEF records
<1>3. session \in Nat
  BY <1>1 DEF session
<1>4. \A s \in 1 .. session : sessions[s] \in records
  BY <1>1 DEF session
<1> QED
  BY <1>1, <1>2, <1>3, <1>4

LEMMA SameIndices ==
    ASSUME shape' = shape
    PROVE  \A owner, kind, lines, s : Good(owner, kind, lines, s)' <=> Good(owner, kind, lines, s)
<1>1. FftSize' = FftSize
  BY DEF FftSize
<1>2. \A owner, kind : Indices(owner, kind)' = Indices(owner, kind)
  BY <1>1 DEF Indices
<1> QED
  BY <1>2 DEF Good

LEMMA SameQueued ==
    ASSUME shape' = shape, sessions' = sessions
    PROVE  \A owner, file : Queued(owner, file)' <=> Queued(owner, file)
<1>1. session' = session /\ flags' = flags
  BY DEF session, flags
<1>2. \A owner, kind, lines : SideText(owner, kind, lines)' <=> SideText(owner, kind, lines)
  BY <1>1, SameIndices DEF SideText
<1> QED
  BY <1>1, <1>2 DEF Queued

(* The sessions there were stay the sessions they were. *)
Extended ==
    /\ session \in Nat /\ session' \in Nat /\ session <= session'
    /\ \A s \in 1 .. session : sessions'[s] = sessions[s]

LEMMA SameExtended ==
    ASSUME TypeOK, sessions' = sessions PROVE Extended /\ session' = session /\ flags' = flags
<1>1. session' = session /\ session \in Nat /\ flags' = flags
  BY Typed DEF session, flags
<1> QED
  BY <1>1 DEF Extended

(* Steps that write nothing: nothing was to be written, or a program died. *)
LEMMA DiskKept ==
    ASSUME TypeOK, OpenOwn, Mains, Sides, Required, Extended, shape' = shape, disk' = disk,
           \/ deaths' = deaths /\ pending = <<>>
           \/ deaths' = deaths + 1
    PROVE  Mains' /\ Sides' /\ Required'
<1>1. deaths \in Nat /\ deaths' \in Nat /\ (deaths > 0 => deaths' > 0)
  BY DEF TypeOK
<1>2. deaths' = 0 => deaths = 0 /\ pending = <<>>
  BY <1>1
<1>3. \A owner, kind : ~Pend(<<>>, owner, kind)
  BY DEF Pend, Range
<1>4. \A owner : Stored(owner)' <=> Stored(owner)
  BY DEF Stored
<1>5. Mains'
  <2> SUFFICES ASSUME NEW owner \in Owners, Stored(owner)
      PROVE \/ /\ disk[Main(owner)] = <<>>
               /\ deaths' > 0 \/ (open' /\ Head(pending').name = Main(owner))
            \/ \E s \in 1 .. session' :
                  MainText(owner, disk[Main(owner)], s, sessions'[s], shape)
    BY <1>4 DEF Mains
  <2>1. CASE /\ disk[Main(owner)] = <<>>
             /\ deaths > 0 \/ (open /\ Head(pending).name = Main(owner))
    <3>1. deaths' > 0
      BY <1>1, <2>1 DEF OpenOwn
    <3> QED
      BY <2>1, <3>1
  <2>2. CASE \E s \in 1 .. session : MainText(owner, disk[Main(owner)], s, sessions[s], shape)
    <3> PICK s \in 1 .. session : MainText(owner, disk[Main(owner)], s, sessions[s], shape)
      BY <2>2
    <3>1. s \in 1 .. session' /\ sessions'[s] = sessions[s]
      BY DEF Extended
    <3> QED
      BY <3>1
  <2> QED
    BY <2>1, <2>2 DEF Mains
<1>6. Sides'
  <2>1. ASSUME NEW v \in Int, v <= session PROVE v <= session'
    BY <2>1 DEF Extended
  <2> QED
    BY <1>4, <2>1 DEF Sides
<1>7. Required'
  <2> SUFFICES ASSUME deaths' = 0, NEW owner \in Owners, NEW kind \in SideKinds,
                      Stored(owner), disk[Main(owner)] # <<>>,
                      Asked(owner, kind, sessions'[disk[Main(owner)].varName], shape)
               PROVE  /\ <<owner, kind>> \in DOMAIN disk
                      /\ Good(owner, kind, disk[<<owner, kind>>], disk[Main(owner)].varName)
    BY <1>4, SameIndices DEF Required
  <2>1. \E s \in 1 .. session : MainText(owner, disk[Main(owner)], s, sessions[s], shape)
    BY DEF Mains
  <2>2. disk[Main(owner)].varName \in 1 .. session
    BY <2>1, MainVarName
  <2>3. sessions'[disk[Main(owner)].varName] = sessions[disk[Main(owner)].varName]
    BY <2>2 DEF Extended
  <2> QED
    BY <1>2, <1>3, <2>3 DEF Required
<1> QED
  BY <1>5, <1>6, <1>7

--------------------------------------------------------------------------------
(* The steps. *)

LEMMA InitInv == Init => IInv
<1> SUFFICES ASSUME Init PROVE IInv
  OBVIOUS
<1>1. /\ shape \in Shapes /\ sessions = <<>> /\ up = FALSE /\ property = NoRecord /\ result = NoRecord
      /\ pending = <<>> /\ open = FALSE /\ disk = <<>> /\ fault = "none" /\ deaths = 0
  BY DEF Init
<1>2. sessions \in Seq([status : Statuses, flags : FlagSets \cup {{}}]) /\ pending \in Seq(Range(pending))
  BY <1>1
<1>3. DOMAIN disk = {}
  BY <1>1
<1>4. TypeOK
  BY <1>1, <1>2 DEF TypeOK
<1>5. OpenOwn /\ Memory /\ Queue /\ LoadedWhole /\ DeathsExplained
  BY <1>1 DEF OpenOwn, Memory, Queue, LoadedWhole, DeathsExplained
<1>6. Mains /\ Sides /\ Required
  BY <1>3 DEF Mains, Sides, Required, Stored
<1> QED
  BY <1>4, <1>5, <1>6 DEF IInv

LEMMA StepZCInit ==
    ASSUME IInv, ZC_Init, OpenOwn' PROVE IInv'
<1>1. PICK status \in Statuses, f \in FlagSets \cup {{}} :
         sessions' = Append(sessions, [status |-> status, flags |-> f])
  <2>1. PICK status \in {"ANALYZE_DATA", "PROBE_COMPRESSOR", "COMPARE_COMPRESSOR"}, f \in FlagSets :
           sessions' = Append(sessions,
              [status |-> status, flags |-> IF status = "COMPARE_COMPRESSOR" THEN {} ELSE f])
    BY DEF ZC_Init
  <2> QED
    BY <2>1 DEF Statuses
<1>2. /\ ~up /\ up' = TRUE /\ fault' = "none"
      /\ UNCHANGED <<shape, property, result, pending, open, disk, deaths>>
  BY DEF ZC_Init
<1>3. TypeOK /\ property = NoRecord /\ result = NoRecord /\ pending = <<>> /\ ~open
  BY <1>2 DEF IInv, TypeOK
<1> DEFINE records == [status : Statuses, flags : FlagSets \cup {{}}]
           new == [status |-> status, flags |-> f]
<1>4. new \in records /\ sessions \in Seq(records)
  BY <1>3 DEF TypeOK
<1> HIDE DEF records, new
<1>5. sessions' = Append(sessions, new)
  BY <1>1 DEF new
<1>6. /\ sessions' \in Seq(records) /\ Len(sessions') = Len(sessions) + 1 /\ Len(sessions) \in Nat
      /\ \A s \in 1 .. Len(sessions) : sessions'[s] = sessions[s]
  BY <1>4, <1>5
<1>7. Extended /\ session' # 0
  BY <1>6 DEF Extended, session
<1>8. TypeOK'
  BY <1>2, <1>3, <1>6, <1>7 DEF TypeOK, records
<1>9. Mains' /\ Sides' /\ Required'
  BY <1>2, <1>3, <1>7, DiskKept DEF IInv
<1>10. Memory' /\ Queue' /\ LoadedWhole' /\ DeathsExplained'
  BY <1>2, <1>3 DEF Memory, Queue, LoadedWhole, DeathsExplained
<1> QED
  BY <1>8, <1>9, <1>10 DEF IInv

(* A call that has files to write.                                         *)
LEMMA StepEnqueue ==
    ASSUME IInv, Idle, Stays, OpenOwn', Memory', sessions[session].status # "COMPARE_COMPRESSOR",
           NEW owner \in Owners, Fresh(owner, pending')
    PROVE  IInv'
<1>1. up /\ pending = <<>> /\ UNCHANGED <<shape, sessions, up, open, disk, fault, deaths>>
  BY DEF Idle, Stays
<1>2. TypeOK /\ Extended /\ session' = session /\ fault = "none"
  BY <1>1, SameExtended, Typed DEF IInv
<1>3. TypeOK'
  BY <1>1, <1>2 DEF TypeOK, Fresh
<1>4. Mains' /\ Sides' /\ Required'
  BY <1>1, <1>2, DiskKept DEF IInv
<1>5. LoadedWhole' /\ DeathsExplained'
  BY <1>1, <1>2 DEF LoadedWhole, DeathsExplained
<1>6. Queue'
  <2>1. \A file \in Range(pending') : Queued(owner, file)'
    BY <1>1, SameQueued DEF Fresh
  <2> SUFFICES
        /\ \A file \in Range(Tail(pending')) : file.name # Main(owner)
        /\ Head(pending').name = Main(owner)
        /\ MainText(owner, Head(pending').lines, session, sessions[session], shape)
        /\ \A kind \in SideKinds :
              Asked(owner, kind, sessions[session], shape) => Pend(pending', owner, kind)
    BY <1>1, <1>2, <2>1 DEF Queue
  <2> QED
    BY DEF Fresh
<1> QED
  BY <1>3, <1>4, <1>5, <1>6 DEF IInv

LEMMA StepAnalyze ==
    ASSUME IInv, AnalyzeDataProperty, OpenOwn' PROVE IInv'
<1> DEFINE a == Analysed(session, flags)
           p == [a EXCEPT !.filePath = session]
<1>1. /\ Running("ANALYZE_DATA") /\ property = NoRecord /\ property' = p
      /\ pending' = ZC_writeDataProperty(p) /\ Stays
  BY DEF AnalyzeDataProperty, ZC_genProperties
<1>2. Idle /\ up /\ sessions[session].status = "ANALYZE_DATA" /\ sessions' = sessions
  BY <1>1 DEF Running, Idle, Stays
<1>3. session \in Nat \ {0} /\ shape \in Shapes /\ session' = session
  BY <1>2, Typed, SameExtended DEF IInv, TypeOK
<1>4. /\ \A k \in Described \ {"numOfElem"} : a[k] = session
      /\ a["numOfElem"] = shape.numOfElem
      /\ \A k \in Sobolev \cup Arrays : a[k] = IF k \in flags THEN session ELSE 0
      /\ DOMAIN a = PropertyFields
  BY AnalysedFields
<1>5. /\ "filePath" \notin Described \cup Sobolev \cup Arrays /\ "filePath" \in PropertyFields
      /\ "numOfElem" # "filePath"
  BY DEF Described, Sobolev, Arrays, PropertyFields
<1> HIDE DEF a
<1>6. p["filePath"] = session /\ \A k \in DOMAIN a : k # "filePath" => p[k] = a[k]
  BY <1>4, <1>5
<1>7. \A k \in Described \cup Sobolev \cup Arrays : k \in PropertyFields
  BY DEF PropertyFields
<1>8. "numOfElem" \in Described /\ {"autocorr", "fftCoeff", "lap", "gradLen"} \subseteq Arrays
  BY DEF Described, Arrays
<1> HIDE DEF p
<1>9. \A k \in Described \cup Sobolev \cup Arrays : p[k] = a[k]
  BY <1>4, <1>5, <1>6, <1>7
<1>10. Fresh("property", ZC_writeDataProperty(p))
  <2>1. \A k \in Described \ {"numOfElem"} : p[k] = session
    BY <1>4, <1>9
  <2>2. p.numOfElem = shape.numOfElem
    BY <1>4, <1>8, <1>9
  <2>3. \A k \in Arrays : p[k] \in {0, session}
    BY <1>4, <1>9
  <2>4. \A k \in {"autocorr", "fftCoeff"} \cap flags : p[k] = session
    BY <1>4, <1>8, <1>9
  <2>5. \A k \in {"lap", "gradLen"} \cap flags : p[k] = session
    BY <1>4, <1>8, <1>9
  <2>6. \A k \in Sobolev \cap flags : p[k] = session
    BY <1>4, <1>9
  <2> QED
    BY <1>2, <1>3, <1>6, <2>1, <2>2, <2>3, <2>4, <2>5, <2>6, NewProperty
<1>11. Memory'
  BY <1>2, <1>3 DEF Memory
<1> QED
  BY <1>1, <1>2, <1>10, <1>11, StepEnqueue DEF Owners

LEMMA StepStart ==
    ASSUME IInv, ZC_startCmpr, OpenOwn' PROVE IInv'
<1>1. /\ Running("PROBE_COMPRESSOR") /\ property' = Analysed(session, {})
      /\ result' = result /\ pending' = pending /\ Stays
  BY DEF ZC_startCmpr, Plain
<1>2. /\ up /\ pending = <<>> /\ sessions[session].status = "PROBE_COMPRESSOR"
      /\ UNCHANGED <<shape, sessions, up, open, disk, fault, deaths>>
  BY <1>1 DEF Running, Idle, Stays
<1>3. TypeOK /\ Extended /\ session' = session /\ fault = "none"
  BY <1>2, SameExtended, Typed DEF IInv
<1>4. TypeOK'
  BY <1>1, <1>2, <1>3 DEF TypeOK
<1>5. Mains' /\ Sides' /\ Required'
  BY <1>2, <1>3, DiskKept DEF IInv
<1>6. LoadedWhole' /\ DeathsExplained' /\ Queue'
  BY <1>1, <1>2, <1>3 DEF LoadedWhole, DeathsExplained, Queue
<1>7. Memory'
  BY <1>1, <1>2, <1>3, AnalysedFields DEF Memory
<1> QED
  BY <1>4, <1>5, <1>6, <1>7 DEF IInv

LEMMA StepStartWithAnalysis ==
    ASSUME IInv, ZC_startCmpr_offline_withDataAnalysis, OpenOwn' PROVE IInv'
<1> DEFINE a == Analysed(session, flags)
           m == ZC_moveDataProperty(property, a)
           p == ZC_genProperties
<1>1. /\ Running("PROBE_COMPRESSOR") /\ property' = p
      /\ pending' = ZC_writeDataProperty(p) /\ Stays
  BY DEF ZC_startCmpr_offline_withDataAnalysis
<1>2. Idle /\ up /\ sessions[session].status = "PROBE_COMPRESSOR" /\ sessions' = sessions /\ shape' = shape
  BY <1>1 DEF Running, Idle, Stays
<1>3. session \in Nat \ {0} /\ shape \in Shapes /\ session' = session
  BY <1>2, Typed, SameExtended DEF IInv, TypeOK
<1>4. /\ \A k \in Described \ {"numOfElem"} : a[k] = session
      /\ a["numOfElem"] = shape.numOfElem /\ a["filePath"] = 0
      /\ \A k \in Sobolev \cup Arrays : a[k] = IF k \in flags THEN session ELSE 0
  BY AnalysedFields
<1>5. p = IF property = NoRecord THEN a ELSE m
  BY DEF ZC_genProperties
<1>6. /\ m["varName"] = property["varName"]
      /\ \A k \in Described \ {"varName"} : m[k] = a[k]
      /\ \A k \in {"autocorr", "fftCoeff"} : m[k] = IF property[k] = 0 THEN a[k] ELSE property[k]
      /\ \A k \in {"lap", "gradLen", "filePath"} : m[k] = property[k]
  BY MovedFields
<1> HIDE DEF a, m, p
<1>7. {"varName", "numOfElem"} \subseteq Described /\ Arrays = {"autocorr", "fftCoeff", "lap", "gradLen"}
  BY DEF Described, Arrays
<1>8. /\ \A k \in Described \ {"numOfElem"} : p[k] = session
      /\ p["numOfElem"] = shape.numOfElem /\ p["filePath"] = 0
      /\ \A k \in Arrays : p[k] \in {0, session}
      /\ \A k \in {"autocorr", "fftCoeff"} \cap flags : p[k] = session
  <2>1. CASE property = NoRecord
    BY <1>4, <1>5, <1>7, <2>1
  <2>2. CASE property # NoRecord
    <3>1. /\ property["varName"] = session
          /\ property["filePath"] = 0
          /\ \A k \in Arrays : property[k] \in {0, session}
      BY <1>2, <1>7, <2>2 DEF IInv, Memory
    <3>2. p = m
      BY <1>5, <2>2
    <3>3. \A k \in Described \ {"numOfElem"} : m[k] = session
      BY <1>4, <1>6, <1>7, <3>1
    <3>4. m["numOfElem"] = shape.numOfElem /\ m["filePath"] = 0
      BY <1>4, <1>6, <1>7, <3>1
    <3>5. \A k \in {"lap", "gradLen"} : m[k] \in {0, session}
      BY <1>6, <1>7, <3>1
    <3>6. \A k \in {"autocorr", "fftCoeff"} : m[k] \in {0, session} /\ (k \in flags => m[k] = session)
      BY <1>3, <1>4, <1>6, <1>7, <3>1
    <3> QED
      BY <1>7, <3>2, <3>3, <3>4, <3>5, <3>6
  <2> QED
    BY <2>1, <2>2
<1>9. Fresh("property", ZC_writeDataProperty(p))
  BY <1>2, <1>3, <1>8, NewProperty
<1>10. Memory'
  BY <1>1, <1>2, <1>3, <1>8 DEF Memory
<1> QED
  BY <1>1, <1>2, <1>9, <1>10, StepEnqueue DEF Owners

LEMMA StepEnd ==
    ASSUME IInv, ZC_endDec_offline, OpenOwn' PROVE IInv'
<1>1. PICK constant \in BOOLEAN :
         pending' = ZC_writeCompressionResult(Compared(session, flags), constant)
  BY DEF ZC_endDec_offline
<1>2. Running("PROBE_COMPRESSOR") /\ property' = property /\ Stays
  BY DEF ZC_endDec_offline
<1>3. /\ Idle /\ up /\ sessions[session].status = "PROBE_COMPRESSOR" /\ sessions' = sessions
      /\ shape' = shape /\ up' = up
  BY <1>2 DEF Running, Idle, Stays
<1>4. session \in Nat \ {0} /\ shape \in Shapes /\ session' = session
  BY <1>3, Typed, SameExtended DEF IInv, TypeOK
<1>5. Fresh("result", pending')
  BY <1>1, <1>3, <1>4, NewResult
<1>6. Memory'
  BY <1>2, <1>3, <1>4 DEF IInv, Memory
<1> QED
  BY <1>2, <1>3, <1>5, <1>6, StepEnqueue DEF Owners

(* What the invariant says of the file at the head.                        *)
LEMMA HeadQueued ==
    ASSUME TypeOK, Queue, pending # <<>>
    PROVE  /\ up /\ sessions[session].status # "COMPARE_COMPRESSOR"
           /\ Range(pending) = {Head(pending)} \cup Range(Tail(pending))
           /\ Tail(pending) \in Seq(Range(Tail(pending)))
           /\ \E owner \in Owners :
                 /\ \A file \in Range(pending) : Queued(owner, file)
                 /\ \A file \in Range(Tail(pending)) : file.name # Main(owner)
                 /\ Queued(owner, Head(pending))
                 /\ Head(pending).name = Main(owner) =>
                       /\ MainText(owner, Head(pending).lines, session, sessions[session], shape)
                       /\ \A kind \in SideKinds :
                             Asked(owner, kind, sessions[session], shape) => Pend(pending, owner, kind)
                 /\ Head(pending).name # Main(owner) =>
                       /\ Stored(owner) /\ disk[Main(owner)] # <<>>
                       /\ disk[Main(owner)].varName = session
<1>1. pending \in Seq(Range(pending))
  BY DEF TypeOK
<1>2. Range(pending) = {Head(pending)} \cup Range(Tail(pending)) /\ Tail(pending) \in Seq(Range(pending))
  BY <1>1, SeqTail
<1>3. Tail(pending) \in Seq(Range(Tail(pending)))
  BY <1>2, SeqOfRange
<1>4. Head(pending) \in Range(pending)
  BY <1>2
<1> QED
  BY <1>2, <1>3, <1>4 DEF Queue

(* Emptied, begun and written: the steps of ZC_writeStrings. *)

(* Only files whose lines are numbered are delivered in parts. *)
LEMMA HeadNumbered ==
    ASSUME TypeOK, Queue, pending # <<>>, Head(pending).name[2] \in Long
    PROVE  /\ Head(pending).name[2] # "main"
           /\ \A x \in DOMAIN Head(pending).lines : x \in Int
<1>1. PICK owner \in Owners : Queued(owner, Head(pending))
  BY HeadQueued
<1>2. Head(pending).name # Main(owner) /\ Head(pending).name # Wild /\ Head(pending).name[2] # "main"
  BY DEF Long, Main, Wild
<1> QED
  BY <1>1, <1>2 DEF Queued, SideText

(* What opening a file leaves on disk. *)
LEMMA OpenFileDisk ==
    ASSUME OpenFile
    PROVE  /\ DOMAIN disk' = DOMAIN disk \cup {Head(pending).name}
           /\ disk'[Head(pending).name] = <<>>
           /\ \A name \in DOMAIN disk : name # Head(pending).name => disk'[name] = disk[name]
<1>1. disk' = [name \in DOMAIN disk \cup {Head(pending).name} |->
                  IF name \notin DOMAIN disk THEN <<>>
                  ELSE IF name = Head(pending).name THEN Opened(disk[name]) ELSE disk[name]]
  BY DEF OpenFile
<1> QED
  BY <1>1 DEF Opened

(* What a full buffer leaves in the file that is open. *)
LEMMA FlushFileDisk ==
    ASSUME TypeOK, Queue, OpenOwn, FlushFile
    PROVE  /\ DOMAIN disk' = DOMAIN disk
           /\ Head(pending).name[2] # "main"
           /\ Beginning(disk'[Head(pending).name], Head(pending).lines)
           /\ \A name \in DOMAIN disk : name # Head(pending).name => disk'[name] = disk[name]
<1> DEFINE name == Head(pending).name
           lines == Head(pending).lines
<1>1. PICK n \in Cuts \cap DOMAIN lines :
         disk' = [disk EXCEPT ![name] = Added(Delivered(lines, n), disk[name])]
  BY DEF FlushFile
<1>2. /\ open /\ pending # <<>> /\ name \in DOMAIN disk /\ Beginning(disk[name], lines)
      /\ name[2] # "main" /\ (\A x \in DOMAIN lines : x \in Int) /\ n \in Int
  BY HeadNumbered, SizeAssumption DEF OpenOwn, FlushFile
<1> DEFINE held == disk[name]
           now == Added(Delivered(lines, n), held)
<1>3. DOMAIN disk' = DOMAIN disk /\ disk'[name] = now /\ \A x \in DOMAIN disk : x # name => disk'[x] = disk[x]
  BY <1>1, <1>2
<1>4. /\ DOMAIN Delivered(lines, n) = {j \in DOMAIN lines : j <= n}
      /\ \A i \in DOMAIN lines : i <= n => Delivered(lines, n)[i] \in {lines[i], CUT}
  BY DEF Delivered
<1>5. /\ DOMAIN now = {j \in DOMAIN lines : j <= n} \cup DOMAIN held
      /\ \A i \in DOMAIN now : now[i] = IF i \in DOMAIN Delivered(lines, n)
                                       THEN Delivered(lines, n)[i] ELSE held[i]
  BY <1>4 DEF Added
<1> HIDE DEF name, lines, held, now
<1>6. DOMAIN held \subseteq DOMAIN lines
      /\ \A i \in DOMAIN held : /\ \A j \in DOMAIN lines : j < i => j \in DOMAIN held
                                /\ held[i] \in {lines[i], CUT}
  BY <1>2 DEF Beginning, held
<1>7. DOMAIN now \subseteq DOMAIN lines
  BY <1>5, <1>6
<1>8. ASSUME NEW i \in DOMAIN now PROVE now[i] \in {lines[i], CUT}
  BY <1>4, <1>5, <1>6, <1>7, <1>8
<1>9. ASSUME NEW i \in DOMAIN now, NEW j \in DOMAIN lines, j < i PROVE j \in DOMAIN now
  <2>1. i \in Int /\ j \in Int /\ n \in Int
    BY <1>2, <1>7
  <2>2. CASE i <= n
    BY <1>5, <1>9, <2>1, <2>2
  <2>3. CASE i \in DOMAIN held
    BY <1>5, <1>6, <1>9, <2>3
  <2> QED
    BY <1>5, <2>2, <2>3
<1>10. Beginning(now, lines)
  BY <1>7, <1>8, <1>9 DEF Beginning
<1> QED
  BY <1>2, <1>3, <1>10 DEF name, lines

(* What closing it leaves: all its lines and no other. *)
LEMMA CloseFileDisk ==
    ASSUME OpenOwn, CloseFile
    PROVE  /\ DOMAIN disk' = DOMAIN disk /\ Head(pending).name \in DOMAIN disk
           /\ Completed(Head(pending).name)
           /\ disk'[Head(pending).name] = [x \in DOMAIN Head(pending).lines |-> Head(pending).lines[x]]
           /\ \A name \in DOMAIN disk : name # Head(pending).name => disk'[name] = disk[name]
<1> DEFINE name == Head(pending).name
           lines == Head(pending).lines
<1>1. open /\ pending # <<>> /\ name \in DOMAIN disk /\ Beginning(disk[name], lines)
  BY DEF OpenOwn, CloseFile
<1>2. disk' = [disk EXCEPT ![name] = Added(lines, disk[name])]
  BY DEF CloseFile
<1>3. DOMAIN lines \cup DOMAIN disk[name] = DOMAIN lines
  BY <1>1 DEF Beginning
<1>4. Added(lines, disk[name]) = [x \in DOMAIN lines |-> lines[x]]
  BY <1>3 DEF Added
<1>5. disk'[name] = [x \in DOMAIN lines |-> lines[x]]
  BY <1>1, <1>2, <1>4
<1>6. DOMAIN disk' = DOMAIN disk /\ \A x \in DOMAIN disk : x # name => disk'[x] = disk[x]
  BY <1>2
<1> QED
  BY <1>1, <1>5, <1>6 DEF Completed

LEMMA StepOwn == IInv /\ [Next]_vars => OpenOwn'
<1> SUFFICES ASSUME TypeOK, Queue, OpenOwn, [Next]_vars PROVE OpenOwn'
  BY DEF IInv
<1>1. CASE ZC_Init
  BY <1>1 DEF ZC_Init, OpenOwn
<1>2. CASE \/ AnalyzeDataProperty \/ ZC_startCmpr \/ ZC_startCmpr_offline_withDataAnalysis
           \/ ZC_endDec_offline \/ ZC_LoadConf
  <2>1. pending = <<>> /\ open' = open
    BY <1>2 DEF AnalyzeDataProperty, ZC_startCmpr, ZC_startCmpr_offline_withDataAnalysis,
                ZC_endDec_offline, ZC_LoadConf, Running, Idle, Stays
  <2> QED
    BY <2>1 DEF OpenOwn
<1>3. CASE OpenFile
  <2>1. DOMAIN disk'[Head(pending).name] = {}
    BY <1>3, OpenFileDisk
  <2> QED
    BY <1>3, <2>1, OpenFileDisk DEF OpenFile, OpenOwn, Beginning
<1>4. CASE FlushFile
  <2>1. pending' = pending /\ up' = up /\ open
    BY <1>4 DEF FlushFile
  <2> QED
    BY <1>4, <2>1, FlushFileDisk DEF OpenOwn
<1>5. CASE CloseFile
  BY <1>5 DEF CloseFile, OpenOwn
<1>6. CASE CopyToWildPointer \/ Crash \/ ZC_Finalize \/ NoPropertyValues \/ CreateLineOfNull
  BY <1>6 DEF CopyToWildPointer, Crash, ZC_Finalize, NoPropertyValues, CreateLineOfNull,
              Dies, Gone, OpenOwn
<1>7. CASE UNCHANGED vars
  BY <1>7 DEF vars, OpenOwn
<1> QED
  BY <1>1, <1>2, <1>3, <1>4, <1>5, <1>6, <1>7 DEF Next

LEMMA StepReplaces == IInv /\ [Next]_vars => [FilesReplaced]_vars
<1> SUFFICES ASSUME TypeOK, Queue, OpenOwn, Next PROVE FilesReplaced
  BY DEF IInv
<1>1. CASE OpenFile
  <2>1. pending' = pending
    BY <1>1 DEF OpenFile
  <2> QED
    BY <1>1, <2>1, OpenFileDisk DEF FilesReplaced
<1>2. CASE FlushFile
  <2>1. pending' = pending /\ pending # <<>>
    BY <1>2 DEF FlushFile, OpenOwn
  <2>2. Begun(Head(pending).name)
    BY <1>2, <2>1, FlushFileDisk DEF Begun
  <2> QED
    BY <1>2, <2>1, <2>2, FlushFileDisk DEF FilesReplaced
<1>3. CASE CloseFile
  BY <1>3, CloseFileDisk DEF FilesReplaced
<1>4. CASE ~ OpenFile /\ ~ FlushFile /\ ~ CloseFile
  <2>1. disk' = disk
    BY <1>4 DEF Next, ZC_Init, AnalyzeDataProperty, ZC_startCmpr,
        ZC_startCmpr_offline_withDataAnalysis, ZC_endDec_offline, ZC_LoadConf, Stays,
        CopyToWildPointer, Crash, ZC_Finalize, NoPropertyValues, CreateLineOfNull
  <2>2. ~up' \/ pending = <<>> \/ pending' = pending
    BY <1>4 DEF Next, ZC_Init, AnalyzeDataProperty, ZC_startCmpr,
        ZC_startCmpr_offline_withDataAnalysis, ZC_endDec_offline, ZC_LoadConf, Running, Idle,
        CopyToWildPointer, Crash, ZC_Finalize, NoPropertyValues, CreateLineOfNull, Dies, Gone
  <2> QED
    BY <2>1, <2>2 DEF FilesReplaced
<1> QED
  BY <1>1, <1>2, <1>3, <1>4

LEMMA StepOpen ==
    ASSUME IInv, OpenFile, OpenOwn' PROVE IInv'
<1> DEFINE file == Head(pending)
<1>1. /\ up /\ pending # <<>> /\ ~open /\ file.name # Wild /\ open' = TRUE
      /\ UNCHANGED <<shape, sessions, up, property, result, pending, fault, deaths>>
  BY DEF OpenFile
<1>2. /\ DOMAIN disk' = DOMAIN disk \cup {file.name}
      /\ disk'[file.name] = <<>>
      /\ \A name \in DOMAIN disk : name # file.name => disk'[name] = disk[name]
  BY OpenFileDisk
<1>3. TypeOK /\ session' = session /\ fault = "none" /\ deaths \in Nat
  BY <1>1, SameExtended, Typed DEF IInv, TypeOK
<1>4. PICK owner \in Owners :
         /\ \A f \in Range(pending) : Queued(owner, f)
         /\ \A f \in Range(Tail(pending)) : f.name # Main(owner)
         /\ Queued(owner, file)
         /\ file.name = Main(owner) =>
               /\ MainText(owner, file.lines, session, sessions[session], shape)
               /\ \A kind \in SideKinds :
                     Asked(owner, kind, sessions[session], shape) => Pend(pending, owner, kind)
         /\ file.name # Main(owner) =>
               /\ Stored(owner) /\ disk[Main(owner)] # <<>>
               /\ disk[Main(owner)].varName = session
  BY <1>1, <1>3, HeadQueued DEF IInv
<1>5. /\ sessions[session].status # "COMPARE_COMPRESSOR"
      /\ Range(pending) = {file} \cup Range(Tail(pending))
  BY <1>1, <1>3, HeadQueued DEF IInv
<1> HIDE DEF file
<1>6. file.name = Main(owner) \/ \E kind \in SideKinds : file.name = <<owner, kind>>
  BY <1>1, <1>4 DEF Queued
<1>7. \A o1, o2, kind : kind \in SideKinds => <<o1, kind>> # Main(o2)
  BY DEF SideKinds, Main
<1>8. \A o : file.name = Main(o) => o = owner
  BY <1>6, <1>7 DEF Main
<1>9. \A o \in Owners : Stored(o) => Stored(o)' /\ (Main(o) # file.name => disk'[Main(o)] = disk[Main(o)])
  BY <1>2 DEF Stored, Main
<1>10. \A o \in Owners : Stored(o)' /\ Main(o) # file.name => Stored(o)
  BY <1>2 DEF Stored, Main
<1>11. TypeOK'
  BY <1>1, <1>3 DEF TypeOK
<1>12. Memory' /\ LoadedWhole' /\ DeathsExplained'
  BY <1>1, <1>3, <1>5 DEF IInv, Memory, LoadedWhole, DeathsExplained
<1>13. Queue'
  <2>1. \A f \in Range(pending) : Queued(owner, f)'
    BY <1>1, <1>4, SameQueued
  <2>2. Head(pending').name # Main(owner) =>
           Stored(owner)' /\ disk'[Main(owner)] # <<>> /\ disk'[Main(owner)].varName = session
    BY <1>1, <1>4, <1>9 DEF file
  <2> SUFFICES
        /\ \A f \in Range(Tail(pending)) : f.name # Main(owner)
        /\ Head(pending).name = Main(owner) =>
              /\ MainText(owner, Head(pending).lines, session, sessions[session], shape)
              /\ \A kind \in SideKinds :
                    Asked(owner, kind, sessions[session], shape) => Pend(pending, owner, kind)
    BY <1>1, <1>3, <1>5, <2>1, <2>2 DEF Queue
  <2> QED
    BY <1>4 DEF file
<1>14. Mains'
  <2> SUFFICES ASSUME NEW o \in Owners, Stored(o)'
      PROVE \/ /\ disk'[Main(o)] = <<>>
               /\ deaths > 0 \/ (open' /\ Head(pending').name = Main(o))
            \/ \E s \in 1 .. session : MainText(o, disk'[Main(o)], s, sessions[s], shape)
    BY <1>1, <1>3 DEF Mains
  <2>1. CASE Main(o) = file.name
    BY <1>1, <1>2, <2>1 DEF file
  <2>2. CASE Main(o) # file.name
    <3>1. Stored(o) /\ disk'[Main(o)] = disk[Main(o)]
      BY <1>9, <1>10, <2>2
    <3> QED
      BY <1>1, <3>1 DEF IInv, Mains
  <2> QED
    BY <2>1, <2>2
<1>15. Sides'
  <2>1. \A name \in DOMAIN disk' : \E o \in Owners, kind \in SideKinds \cup {"main"} : name = <<o, kind>>
    BY <1>2, <1>6 DEF IInv, Sides, Main
  <2>2. ASSUME NEW o \in Owners, NEW kind \in SideKinds, <<o, kind>> \in DOMAIN disk'
        PROVE  /\ Stored(o)'
               /\ \A x \in DOMAIN disk'[<<o, kind>>] :
                     /\ disk'[<<o, kind>>][x] \in Int
                     /\ disk'[<<o, kind>>][x] <= session
                     /\ \/ disk'[Main(o)] = <<>>
                        \/ disk'[<<o, kind>>][x] <= disk'[Main(o)].varName
    <3>1. CASE <<o, kind>> = file.name
      <4>1. file.name # Main(owner) /\ o = owner
        BY <1>6, <1>7, <3>1 DEF Main
      <4>2. DOMAIN disk'[<<o, kind>>] = {}
        BY <1>2, <3>1
      <4> QED
        BY <1>4, <1>9, <4>1, <4>2
    <3>2. CASE <<o, kind>> # file.name
      <4>1. <<o, kind>> \in DOMAIN disk /\ disk'[<<o, kind>>] = disk[<<o, kind>>]
        BY <1>2, <2>2, <3>2
      <4>2. /\ Stored(o)
            /\ \A x \in DOMAIN disk[<<o, kind>>] :
                  /\ disk[<<o, kind>>][x] \in Int
                  /\ disk[<<o, kind>>][x] <= session
                  /\ \/ disk[Main(o)] = <<>>
                     \/ disk[<<o, kind>>][x] <= disk[Main(o)].varName
        BY <4>1 DEF IInv, Sides
      <4>3. disk'[Main(o)] = disk[Main(o)] \/ disk'[Main(o)] = <<>>
        BY <1>2, <1>9, <4>2
      <4> QED
        BY <1>9, <4>1, <4>2, <4>3
    <3> QED
      BY <3>1, <3>2
  <2> QED
    BY <1>3, <2>1, <2>2 DEF Sides
<1>16. Required'
  <2> SUFFICES ASSUME deaths = 0, NEW o \in Owners, NEW kind \in SideKinds,
                      Stored(o)', disk'[Main(o)] # <<>>,
                      Asked(o, kind, sessions[disk'[Main(o)].varName], shape)
               PROVE  \/ Pend(pending, o, kind)
                      \/ /\ <<o, kind>> \in DOMAIN disk'
                         /\ Good(o, kind, disk'[<<o, kind>>], disk'[Main(o)].varName)
    BY <1>1, SameIndices DEF Required
  <2>1. Main(o) # file.name
    BY <1>2
  <2>2. Stored(o) /\ disk'[Main(o)] = disk[Main(o)]
    BY <1>9, <1>10, <2>1
  <2>3. \/ Pend(pending, o, kind)
        \/ /\ <<o, kind>> \in DOMAIN disk
           /\ Good(o, kind, disk[<<o, kind>>], disk[Main(o)].varName)
    BY <2>2 DEF IInv, Required
  <2>4. CASE <<o, kind>> = file.name
    BY <1>5, <2>4 DEF Pend
  <2>5. CASE <<o, kind>> # file.name
    BY <1>2, <2>2, <2>3, <2>5
  <2> QED
    BY <2>4, <2>5
<1> QED
  BY <1>11, <1>12, <1>13, <1>14, <1>15, <1>16 DEF IInv

(* A full buffer changes the file that is open, which is no main file and  *)
(* still to be written.                                                    *)
LEMMA StepFlush ==
    ASSUME IInv, FlushFile, OpenOwn' PROVE IInv'
<1> DEFINE file == Head(pending)
<1>1. /\ open /\ file.name[2] \in Long
      /\ UNCHANGED <<shape, sessions, up, property, result, pending, open, fault, deaths>>
  BY DEF FlushFile
<1>2. TypeOK /\ Queue /\ session' = session /\ flags' = flags /\ up /\ pending # <<>>
      /\ file.name \in DOMAIN disk
  BY <1>1, SameExtended DEF IInv, OpenOwn
<1>3. /\ DOMAIN disk' = DOMAIN disk /\ file.name[2] # "main"
      /\ Beginning(disk'[file.name], file.lines)
      /\ \A name \in DOMAIN disk : name # file.name => disk'[name] = disk[name]
  BY <1>2, FlushFileDisk DEF IInv
<1>4. PICK owner \in Owners :
         /\ \A f \in Range(pending) : Queued(owner, f)
         /\ Queued(owner, file)
         /\ file.name # Main(owner) =>
               /\ Stored(owner) /\ disk[Main(owner)] # <<>>
               /\ disk[Main(owner)].varName = session
  BY <1>2, HeadQueued
<1>5. Range(pending) = {file} \cup Range(Tail(pending))
  BY <1>2, HeadQueued
<1>6. session \in Nat /\ fault = "none"
  BY <1>2, Typed
<1> HIDE DEF file
<1>7. /\ \A o : file.name # Main(o) /\ Main(o)[2] = "main"
      /\ file.name # Wild
  BY <1>1, <1>3 DEF Main, Wild, Long
<1>8. PICK kind \in SideKinds : file.name = <<owner, kind>> /\ SideText(owner, kind, file.lines)
  BY <1>4, <1>7 DEF Queued
<1>9. \A o \in Owners : /\ Stored(o)' <=> Stored(o)
                        /\ Stored(o) => disk'[Main(o)] = disk[Main(o)]
  BY <1>3, <1>7 DEF Stored, Main
<1>10. \A x \in DOMAIN disk'[file.name] :
          disk'[file.name][x] \in Int /\ disk'[file.name][x] <= session
  <2>1. CUT \in Int /\ CUT <= session
    BY <1>6 DEF CUT
  <2> QED
    BY <1>3, <1>8, <2>1 DEF Beginning, SideText
<1>11. TypeOK'
  BY <1>1, <1>2 DEF TypeOK
<1>12. Memory' /\ LoadedWhole'
  BY <1>1, <1>2 DEF IInv, Memory, LoadedWhole, WholeProperty, WholeResult
<1>13. DeathsExplained'
  BY <1>1, <1>6 DEF DeathsExplained
<1>14. Queue'
  <2>1. \A o, f : Queued(o, f)' <=> Queued(o, f)
    BY <1>1, SameQueued
  <2> QED
    BY <1>1, <1>2, <1>9, <2>1 DEF Queue
<1>15. Mains'
  BY <1>1, <1>2, <1>9 DEF IInv, Mains
<1>16. Sides'
  <2>1. ASSUME NEW o \in Owners, NEW k \in SideKinds, <<o, k>> \in DOMAIN disk
        PROVE  /\ Stored(o)'
               /\ \A x \in DOMAIN disk'[<<o, k>>] :
                     /\ disk'[<<o, k>>][x] \in Int
                     /\ disk'[<<o, k>>][x] <= session
                     /\ \/ disk'[Main(o)] = <<>>
                        \/ disk'[<<o, k>>][x] <= disk'[Main(o)].varName
    <3>1. CASE <<o, k>> = file.name
      <4>1. o = owner
        BY <1>8, <3>1
      <4> QED
        BY <1>4, <1>7, <1>9, <1>10, <3>1, <4>1
    <3>2. CASE <<o, k>> # file.name
      <4>1. disk'[<<o, k>>] = disk[<<o, k>>]
        BY <1>3, <2>1, <3>2
      <4>2. /\ Stored(o)
            /\ \A x \in DOMAIN disk[<<o, k>>] :
                  /\ disk[<<o, k>>][x] \in Int
                  /\ disk[<<o, k>>][x] <= session
                  /\ \/ disk[Main(o)] = <<>>
                     \/ disk[<<o, k>>][x] <= disk[Main(o)].varName
        BY <2>1 DEF IInv, Sides
      <4> QED
        BY <1>9, <4>1, <4>2
    <3> QED
      BY <3>1, <3>2
  <2>2. \A name \in DOMAIN disk' : \E o \in Owners, k \in SideKinds \cup {"main"} : name = <<o, k>>
    BY <1>3 DEF IInv, Sides
  <2> QED
    BY <1>2, <1>3, <2>1, <2>2 DEF Sides
<1>17. Required'
  <2> SUFFICES ASSUME deaths = 0, NEW o \in Owners, NEW k \in SideKinds,
                      Stored(o), disk[Main(o)] # <<>>,
                      Asked(o, k, sessions[disk[Main(o)].varName], shape)
               PROVE  \/ Pend(pending, o, k)
                      \/ /\ <<o, k>> \in DOMAIN disk'
                         /\ Good(o, k, disk'[<<o, k>>], disk[Main(o)].varName)
    BY <1>1, <1>9, SameIndices DEF Required
  <2>1. \/ Pend(pending, o, k)
        \/ /\ <<o, k>> \in DOMAIN disk
           /\ Good(o, k, disk[<<o, k>>], disk[Main(o)].varName)
    BY DEF IInv, Required
  <2>2. CASE <<o, k>> = file.name
    BY <1>5, <2>2 DEF Pend
  <2>3. CASE <<o, k>> # file.name
    BY <1>3, <2>1, <2>3
  <2> QED
    BY <2>2, <2>3
<1> QED
  BY <1>11, <1>12, <1>13, <1>14, <1>15, <1>16, <1>17 DEF IInv

LEMMA StepClose ==
    ASSUME IInv, CloseFile, OpenOwn' PROVE IInv'
<1> DEFINE file == Head(pending)
<1>1. /\ open /\ open' = FALSE /\ pending' = Tail(pending)
      /\ UNCHANGED <<shape, sessions, up, property, result, fault, deaths>>
  BY DEF CloseFile
<1>2. /\ up /\ pending # <<>> /\ file.name \in DOMAIN disk
  BY <1>1 DEF IInv, OpenOwn
<1>3. TypeOK /\ session' = session /\ fault = "none" /\ deaths \in Nat /\ session \in Nat \ {0}
  BY <1>1, <1>2, SameExtended, Typed DEF IInv, TypeOK
<1>4. PICK owner \in Owners :
         /\ \A f \in Range(pending) : Queued(owner, f)
         /\ \A f \in Range(Tail(pending)) : f.name # Main(owner)
         /\ Queued(owner, file)
         /\ file.name = Main(owner) =>
               /\ MainText(owner, file.lines, session, sessions[session], shape)
               /\ \A kind \in SideKinds :
                     Asked(owner, kind, sessions[session], shape) => Pend(pending, owner, kind)
         /\ file.name # Main(owner) =>
               /\ Stored(owner) /\ disk[Main(owner)] # <<>>
               /\ disk[Main(owner)].varName = session
  BY <1>2, <1>3, HeadQueued DEF IInv
<1>5. /\ sessions[session].status # "COMPARE_COMPRESSOR"
      /\ Range(pending) = {file} \cup Range(Tail(pending))
      /\ pending' \in Seq(Range(pending'))
  BY <1>1, <1>2, <1>3, HeadQueued DEF IInv
<1>6. /\ DOMAIN disk' = DOMAIN disk
      /\ disk'[file.name] = file.lines
      /\ \A name \in DOMAIN disk : name # file.name => disk'[name] = disk[name]
  BY <1>4, CloseFileDisk DEF IInv, Queued
<1> HIDE DEF file
<1>7. file.name # Wild
  <2>1. \E o \in Owners, kind \in SideKinds \cup {"main"} : file.name = <<o, kind>>
    BY <1>2 DEF IInv, Sides
  <2>2. \A o : \A kind \in SideKinds \cup {"main"} : <<o, kind>> # Wild
    BY DEF SideKinds, Wild
  <2> QED
    BY <2>1, <2>2
<1>8. \/ file.name = Main(owner)
      \/ \E kind \in SideKinds : file.name = <<owner, kind>> /\ SideText(owner, kind, file.lines)
  BY <1>4, <1>7 DEF Queued
<1>9. \A o1, o2, kind : kind \in SideKinds => <<o1, kind>> # Main(o2)
  BY DEF SideKinds, Main
<1>10. \A o : file.name = Main(o) => o = owner
  BY <1>8, <1>9 DEF Main
<1>11. \A o \in Owners : Stored(o)' <=> Stored(o)
  BY <1>6 DEF Stored
<1>12. \A o \in Owners : Stored(o) /\ Main(o) # file.name => disk'[Main(o)] = disk[Main(o)]
  BY <1>6 DEF Stored, Main
<1>13. (* Either the main file is written now, or it was before. *)
       /\ Stored(owner) /\ disk'[Main(owner)] # <<>> /\ disk'[Main(owner)].varName = session
  <2>1. CASE file.name = Main(owner)
    BY <1>2, <1>4, <1>6, <2>1, MainVarName DEF Stored, Main
  <2>2. CASE file.name # Main(owner)
    BY <1>4, <1>12, <2>2
  <2> QED
    BY <2>1, <2>2
<1>14. TypeOK'
  BY <1>1, <1>2, <1>3, <1>5 DEF TypeOK
<1>15. Memory' /\ LoadedWhole' /\ DeathsExplained'
  BY <1>1, <1>3, <1>5 DEF IInv, Memory, LoadedWhole, DeathsExplained
<1>16. Queue'
  <2> SUFFICES ASSUME pending' # <<>> PROVE Queue'
    BY DEF Queue
  <2>1. Range(pending') = {Head(pending')} \cup Range(Tail(pending'))
    BY <1>5, SeqTail
  <2>2. \A f \in Range(pending') : Queued(owner, f)' /\ f.name # Main(owner)
    BY <1>1, <1>4, <1>5, SameQueued
  <2>3. Head(pending').name # Main(owner) /\ \A f \in Range(Tail(pending')) : f.name # Main(owner)
    BY <2>1, <2>2
  <2> QED
    BY <1>1, <1>2, <1>3, <1>5, <1>11, <1>13, <2>2, <2>3 DEF Queue
<1>17. Mains'
  <2> SUFFICES ASSUME NEW o \in Owners, Stored(o)
      PROVE \/ disk'[Main(o)] = <<>> /\ deaths > 0
            \/ \E s \in 1 .. session : MainText(o, disk'[Main(o)], s, sessions[s], shape)
    BY <1>1, <1>3, <1>11 DEF Mains
  <2>1. CASE Main(o) = file.name
    <3>1. o = owner /\ MainText(o, disk'[Main(o)], session, sessions[session], shape)
      BY <1>4, <1>6, <1>10, <2>1
    <3>2. session \in 1 .. session
      BY <1>3
    <3> QED
      BY <3>1, <3>2
  <2>2. CASE Main(o) # file.name
    <3>1. disk'[Main(o)] = disk[Main(o)]
      BY <1>12, <2>2
    <3> QED
      BY <2>2, <3>1 DEF IInv, Mains, file
  <2> QED
    BY <2>1, <2>2
<1>18. Sides'
  <2>1. ASSUME NEW o \in Owners, NEW kind \in SideKinds, <<o, kind>> \in DOMAIN disk
        PROVE  /\ Stored(o)
               /\ \A x \in DOMAIN disk'[<<o, kind>>] :
                     /\ disk'[<<o, kind>>][x] \in Int
                     /\ disk'[<<o, kind>>][x] <= session
                     /\ \/ disk'[Main(o)] = <<>>
                        \/ disk'[<<o, kind>>][x] <= disk'[Main(o)].varName
    <3>1. CASE <<o, kind>> = file.name
      <4>1. o = owner /\ SideText(o, kind, disk'[<<o, kind>>])
        BY <1>6, <1>8, <1>9, <3>1
      <4> QED
        BY <1>13, <4>1 DEF SideText
    <3>2. CASE <<o, kind>> # file.name
      <4>1. disk'[<<o, kind>>] = disk[<<o, kind>>]
        BY <1>6, <2>1, <3>2
      <4>2. /\ Stored(o)
            /\ \A x \in DOMAIN disk[<<o, kind>>] :
                  /\ disk[<<o, kind>>][x] \in Int
                  /\ disk[<<o, kind>>][x] <= session
                  /\ \/ disk[Main(o)] = <<>>
                     \/ disk[<<o, kind>>][x] <= disk[Main(o)].varName
        BY <2>1 DEF IInv, Sides
      <4>3. disk'[Main(o)] = disk[Main(o)] \/ disk'[Main(o)].varName = session
        BY <1>10, <1>12, <1>13, <4>2
      <4> QED
        BY <4>1, <4>2, <4>3
    <3> QED
      BY <3>1, <3>2
  <2>2. \A name \in DOMAIN disk' : \E o \in Owners, kind \in SideKinds \cup {"main"} : name = <<o, kind>>
    BY <1>6 DEF IInv, Sides
  <2> QED
    BY <1>3, <1>6, <1>11, <2>1, <2>2 DEF Sides
<1>19. Required'
  <2> SUFFICES ASSUME deaths = 0, NEW o \in Owners, NEW kind \in SideKinds,
                      Stored(o), disk'[Main(o)] # <<>>,
                      Asked(o, kind, sessions[disk'[Main(o)].varName], shape)
               PROVE  \/ Pend(pending', o, kind)
                      \/ /\ <<o, kind>> \in DOMAIN disk'
                         /\ Good(o, kind, disk'[<<o, kind>>], disk'[Main(o)].varName)
    BY <1>1, <1>11, SameIndices DEF Required
  <2>1. ASSUME Pend(pending, o, kind), <<o, kind>> # file.name PROVE Pend(pending', o, kind)
    BY <1>1, <1>5, <1>7, <2>1 DEF Pend
  <2>2. CASE Main(o) = file.name
    <3>1. o = owner /\ disk'[Main(o)].varName = session
      BY <1>10, <1>13, <2>2
    <3>2. Pend(pending, o, kind)
      BY <1>4, <2>2, <3>1
    <3> QED
      BY <1>9, <2>1, <2>2, <3>2
  <2>3. CASE <<o, kind>> = file.name
    <3>1. o = owner /\ SideText(o, kind, disk'[<<o, kind>>]) /\ disk'[Main(o)].varName = session
      BY <1>6, <1>8, <1>9, <1>13, <2>3
    <3> QED
      BY <1>2, <1>6, <2>3, <3>1 DEF SideText
  <2>4. CASE Main(o) # file.name /\ <<o, kind>> # file.name
    <3>1. disk'[Main(o)] = disk[Main(o)]
      BY <1>12, <2>4
    <3>2. \/ Pend(pending, o, kind)
          \/ /\ <<o, kind>> \in DOMAIN disk
             /\ Good(o, kind, disk[<<o, kind>>], disk[Main(o)].varName)
      BY <3>1 DEF IInv, Required
    <3> QED
      BY <1>6, <2>1, <2>4, <3>1, <3>2
  <2> QED
    BY <2>2, <2>3, <2>4
<1> QED
  BY <1>14, <1>15, <1>16, <1>17, <1>18, <1>19 DEF IInv

(* A program ends, or dies.                                                *)
LEMMA StepGone ==
    ASSUME IInv, Gone, UNCHANGED disk, OpenOwn', DeathsExplained',
           \/ pending = <<>> /\ deaths' = deaths
           \/ deaths' = deaths + 1
    PROVE  IInv'
<1>1. /\ up' = FALSE /\ property' = NoRecord /\ result' = NoRecord
      /\ pending' = <<>> /\ open' = FALSE /\ UNCHANGED <<shape, sessions>>
  BY DEF Gone
<1>2. TypeOK /\ Extended
  BY <1>1, SameExtended DEF IInv
<1>3. pending' \in Seq(Range(pending'))
  BY <1>1
<1>4. deaths' \in Nat
  BY <1>2 DEF TypeOK
<1>5. TypeOK'
  BY <1>1, <1>2, <1>3, <1>4 DEF TypeOK
<1>6. Mains' /\ Sides' /\ Required'
  BY <1>1, <1>2, DiskKept DEF IInv
<1>7. Memory' /\ Queue' /\ LoadedWhole'
  BY <1>1 DEF Memory, Queue, LoadedWhole
<1> QED
  BY <1>5, <1>6, <1>7 DEF IInv

LEMMA StepEnds ==
    ASSUME IInv, ZC_Finalize \/ NoPropertyValues, OpenOwn' PROVE IInv'
<1>1. up /\ pending = <<>> /\ Gone /\ UNCHANGED <<disk, fault, deaths>>
  BY DEF ZC_Finalize, NoPropertyValues, Running, Idle
<1>2. fault = "none"
  BY <1>1, Typed DEF IInv
<1>3. DeathsExplained'
  BY <1>1, <1>2 DEF DeathsExplained
<1> QED
  BY <1>1, <1>3, StepGone

LEMMA StepCrash ==
    ASSUME IInv, Crash, OpenOwn' PROVE IInv'
<1>1. Gone /\ fault' = "killed" /\ deaths' = deaths + 1 /\ UNCHANGED disk
  BY DEF Crash, Dies
<1>2. DeathsExplained'
  BY <1>1 DEF DeathsExplained
<1> QED
  BY <1>1, <1>2, StepGone

LEMMA StepWild ==
    ASSUME IInv, CopyToWildPointer, OpenOwn' PROVE IInv'
<1>1. /\ pending # <<>> /\ Head(pending).name = Wild
      /\ Gone /\ fault' = "wild pointer" /\ deaths' = deaths + 1 /\ UNCHANGED disk
  BY DEF CopyToWildPointer, Dies
<1>2. TypeOK /\ session' = session /\ flags' = flags
  BY <1>1, SameExtended DEF IInv, Gone
<1>3. PICK owner \in Owners :
         /\ Queued(owner, Head(pending))
         /\ Head(pending).name # Main(owner) => disk[Main(owner)].varName = session
  BY <1>1, <1>2, HeadQueued DEF IInv
<1>4. \A o : Wild # Main(o) /\ \A kind \in SideKinds : Wild # <<o, kind>>
  BY DEF Wild, Main, SideKinds
<1>5. owner = "result" /\ "pwrErrPDF" \in flags /\ disk[Main(owner)].varName = session
  BY <1>1, <1>3, <1>4 DEF Queued
<1>6. DeathsExplained'
  BY <1>1, <1>2, <1>5 DEF DeathsExplained, Main
<1> QED
  BY <1>1, <1>6, StepGone

LEMMA StepLineOfNull ==
    ASSUME IInv, CreateLineOfNull, OpenOwn' PROVE IInv'
<1> DEFINE lines == disk[<<"property", "main">>]
<1>1. /\ pending = <<>> /\ Stored("property") /\ "filePath" \notin DOMAIN lines
      /\ Gone /\ fault' = "no filePath" /\ deaths' = deaths + 1 /\ UNCHANGED disk
  BY DEF CreateLineOfNull, Dies, Running, Idle
<1>2. TypeOK /\ sessions' = sessions /\ deaths \in Nat
  BY <1>1 DEF IInv, Gone, TypeOK
<1>3. ~open
  BY <1>1 DEF IInv, OpenOwn
<1>4. \/ lines = <<>> /\ deaths > 0
      \/ \E s \in 1 .. session : MainText("property", lines, s, sessions[s], shape)
  BY <1>1, <1>3 DEF IInv, Mains, Owners, Main
<1>5. \/ lines = <<>> /\ deaths' > 1
      \/ lines # <<>> /\ sessions[lines.varName].status = "PROBE_COMPRESSOR"
  <2>1. CASE lines = <<>> /\ deaths > 0
    <3>1. deaths' = deaths + 1 /\ deaths \in Nat
      BY <1>1, <1>2
    <3>2. deaths' > 1
      BY <2>1, <3>1
    <3> QED
      BY <2>1, <3>2
  <2>2. ASSUME NEW s \in 1 .. session, MainText("property", lines, s, sessions[s], shape)
        PROVE  lines # <<>> /\ sessions[lines.varName].status = "PROBE_COMPRESSOR"
    <3>1. lines.varName = s /\ lines # <<>>
      BY <2>2, MainVarName DEF Owners
    <3>2. sessions[s].status = "PROBE_COMPRESSOR"
      BY <1>1, <2>2 DEF MainText, PropertyText
    <3> QED
      BY <3>1, <3>2
  <2> QED
    BY <1>4, <2>1, <2>2
<1>6. DeathsExplained'
  BY <1>1, <1>2, <1>5 DEF DeathsExplained
<1> QED
  BY <1>1, <1>6, StepGone

LEMMA StepLoad ==
    ASSUME IInv, ZC_LoadConf, OpenOwn' PROVE IInv'
<1> DEFINE lines == disk[<<"property", "main">>]
           text == disk[<<"result", "main">>]
<1>1. /\ up /\ pending = <<>> /\ sessions[session].status = "COMPARE_COMPRESSOR"
      /\ Stored("property") /\ "filePath" \in DOMAIN lines
      /\ property' = ZC_loadDataProperty(lines)
      /\ result' = IF Stored("result") THEN ZC_loadCompressionResult(text) ELSE NoRecord
      /\ UNCHANGED <<shape, sessions, up, open, disk, fault, deaths, pending>>
  BY DEF ZC_LoadConf, Running, Idle, Stays
<1>2. TypeOK /\ Extended /\ session' = session /\ fault = "none" /\ shape \in Shapes
  BY <1>1, SameExtended, Typed DEF IInv, TypeOK
<1>3. session \in Nat \ {0} /\ ~open
  BY <1>1, <1>2, Typed DEF IInv, OpenOwn
<1>4. TypeOK'
  BY <1>1, <1>2 DEF TypeOK
<1>5. Mains' /\ Sides' /\ Required'
  BY <1>1, <1>2, DiskKept DEF IInv
<1>6. Memory' /\ Queue' /\ DeathsExplained'
  BY <1>1, <1>2 DEF Memory, Queue, DeathsExplained
<1>7. \A s \in 1 .. session : sessions[s].status # "COMPARE_COMPRESSOR" => s \in 1 .. session - 1
  BY <1>1, <1>3
<1>8. \E s \in 1 .. session - 1 : WholeProperty(property', s)
  <2>1. \E s \in 1 .. session : MainText("property", lines, s, sessions[s], shape)
    BY <1>1, <1>3 DEF IInv, Mains, Owners, Main
  <2>2. PICK s \in 1 .. session : PropertyText(lines, s, sessions[s], shape)
    BY <2>1 DEF MainText
  <2>3. s \in 1 .. session - 1
    <3>1. sessions[s].status # "COMPARE_COMPRESSOR"
      BY <2>2 DEF PropertyText
    <3> QED
      BY <1>7, <3>1
  <2>4. WholeProperty(ZC_loadDataProperty(lines), s)
    BY <1>1, <1>2, <2>2, LoadedProperty
  <2> QED
    BY <1>1, <2>3, <2>4
<1>9. ASSUME result' # NoRecord
      PROVE  \/ \E s \in 1 .. session - 1 : WholeResult(result', s)
             \/ deaths > 0 /\ \A k \in ResultFields : result'[k] \in {0, -1}
  <2>1. Stored("result") /\ result' = ZC_loadCompressionResult(text)
    BY <1>1, <1>9
  <2>2. \/ text = <<>> /\ deaths > 0
        \/ \E s \in 1 .. session : MainText("result", text, s, sessions[s], shape)
    BY <1>3, <2>1 DEF IInv, Mains, Owners, Main
  <2>3. CASE text = <<>> /\ deaths > 0
    <3>1. DOMAIN text = {}
      BY <2>3
    <3> QED
      BY <2>1, <2>3, <3>1, LoadedNothing
  <2>4. CASE \E s \in 1 .. session : MainText("result", text, s, sessions[s], shape)
    <3>1. PICK s \in 1 .. session : ResultText(text, s, sessions[s], shape)
      BY <2>4 DEF MainText
    <3>2. s \in 1 .. session - 1
      <4>1. sessions[s].status # "COMPARE_COMPRESSOR"
        BY <3>1 DEF ResultText
      <4> QED
        BY <1>7, <4>1
    <3> QED
      BY <1>2, <2>1, <3>1, <3>2, LoadedResult
  <2> QED
    BY <2>2, <2>3, <2>4
<1>10. LoadedWhole'
  <2>1. \A s : WholeProperty(property, s)' <=> WholeProperty(property', s)
    BY <1>1 DEF WholeProperty
  <2>2. \A s : WholeResult(result, s)' <=> WholeResult(result', s)
    BY <1>1 DEF WholeResult
  <2> QED
    BY <1>1, <1>2, <1>8, <1>9, <2>1, <2>2 DEF LoadedWhole
<1> QED
  BY <1>4, <1>5, <1>6, <1>10 DEF IInv

LEMMA StepStutter ==
    ASSUME IInv, UNCHANGED vars PROVE IInv'
<1>1. UNCHANGED <<shape, sessions, up, property, result, pending, open, disk, fault, deaths>>
  BY DEF vars
<1>2. session' = session /\ flags' = flags
  BY <1>1 DEF session, flags
<1>3. TypeOK' /\ OpenOwn' /\ Memory' /\ Mains' /\ Sides' /\ DeathsExplained'
  BY <1>1, <1>2 DEF IInv, TypeOK, OpenOwn, Memory, Mains, Sides, DeathsExplained, Stored
<1>4. Queue' /\ Required'
  BY <1>1, <1>2, SameQueued, SameIndices DEF IInv, Queue, Required, Stored
<1>5. LoadedWhole'
  BY <1>1, <1>2 DEF IInv, LoadedWhole, WholeProperty, WholeResult
<1> QED
  BY <1>3, <1>4, <1>5 DEF IInv

LEMMA StepInv == IInv /\ [Next]_vars => IInv'
<1> SUFFICES ASSUME IInv, [Next]_vars PROVE IInv'
  OBVIOUS
<1>1. OpenOwn'
  BY StepOwn
<1>2. CASE ZC_Init
  BY <1>1, <1>2, StepZCInit
<1>3. CASE AnalyzeDataProperty
  BY <1>1, <1>3, StepAnalyze
<1>4. CASE ZC_startCmpr
  BY <1>1, <1>4, StepStart
<1>5. CASE ZC_startCmpr_offline_withDataAnalysis
  BY <1>1, <1>5, StepStartWithAnalysis
<1>6. CASE ZC_endDec_offline
  BY <1>1, <1>6, StepEnd
<1>7. CASE OpenFile
  BY <1>1, <1>7, StepOpen
<1>8. CASE CloseFile
  BY <1>1, <1>8, StepClose
<1>9. CASE CopyToWildPointer
  BY <1>1, <1>9, StepWild
<1>10. CASE Crash
  BY <1>1, <1>10, StepCrash
<1>11. CASE ZC_Finalize \/ NoPropertyValues
  BY <1>1, <1>11, StepEnds
<1>12. CASE ZC_LoadConf
  BY <1>1, <1>12, StepLoad
<1>13. CASE CreateLineOfNull
  BY <1>1, <1>13, StepLineOfNull
<1>14. CASE FlushFile
  BY <1>1, <1>14, StepFlush
<1>15. CASE UNCHANGED vars
  BY <1>15, StepStutter
<1> QED
  BY <1>2, <1>3, <1>4, <1>5, <1>6, <1>7, <1>8, <1>9, <1>10, <1>11, <1>12, <1>13, <1>14, <1>15 DEF Next

LEMMA InvSideFiles == IInv => SideFilesOwn
<1> SUFFICES ASSUME IInv PROVE SideFilesOwn
  OBVIOUS
<1>1. TypeOK /\ OpenOwn /\ Mains /\ Sides /\ Required
  BY DEF IInv
<1>2. NoFileAhead
  <2> SUFFICES ASSUME NEW name \in DOMAIN disk, name[2] # "main"
               PROVE  /\ <<name[1], "main">> \in DOMAIN disk
                      /\ \/ disk[<<name[1], "main">>] = <<>>
                         \/ \A value \in Range(disk[name]) : value <= disk[<<name[1], "main">>].varName
    BY DEF NoFileAhead
  <2>1. \E o \in Owners, k \in SideKinds \cup {"main"} : name = <<o, k>>
    BY <1>1 DEF Sides
  <2>2. PICK o \in Owners : \E k \in SideKinds \cup {"main"} : name = <<o, k>>
    BY <2>1
  <2>3. PICK k \in SideKinds \cup {"main"} : name = <<o, k>>
    BY <2>2
  <2>4. name[1] = o /\ k \in SideKinds
    BY <2>3
  <2> QED
    BY <1>1, <2>3, <2>4 DEF Sides, Stored, Main, Range
<1>3. ASSUME deaths = 0, pending = <<>>, NEW o \in Owners, Stored(o)
      PROVE  \A kind \in SideKinds :
                Asked(o, kind, sessions[disk[Main(o)].varName], shape) =>
                    /\ <<o, kind>> \in DOMAIN disk
                    /\ Good(o, kind, disk[<<o, kind>>], disk[Main(o)].varName)
  <2>1. ~open /\ \A kind : ~Pend(pending, o, kind)
    BY <1>1, <1>3 DEF OpenOwn, Pend, Range
  <2>2. \E s \in 1 .. session : MainText(o, disk[Main(o)], s, sessions[s], shape)
    BY <1>1, <1>3, <2>1 DEF Mains
  <2>3. disk[Main(o)] # <<>>
    BY <2>2, MainVarName
  <2> QED
    BY <1>1, <1>3, <2>1, <2>3 DEF Required
<1>4. ASSUME NEW o \in Owners, NEW kind \in SideKinds, NEW flag, NEW s,
             flag \in sessions[s].flags =>
                 /\ <<o, kind>> \in DOMAIN disk
                 /\ Good(o, kind, disk[<<o, kind>>], s)
      PROVE  Beside(o, kind, flag, Indices(o, kind), s)
  BY <1>4 DEF Beside, Good
<1> DEFINE coefficients == 0 .. (IF FftSize < FFT_SIZE THEN FftSize ELSE FFT_SIZE) - 1
           elements == 0 .. shape.numOfElem - 1
<1>5. /\ Indices("property", "autocorr") = 0 .. AUTOCORR_SIZE - 2
      /\ Indices("result", "autocorr") = 0 .. AUTOCORR_SIZE
      /\ \A o \in Owners : Indices(o, "fft.amp") = coefficients
      /\ Indices("property", "lap") = elements
      /\ Indices("property", "gradLen") = elements
      /\ Indices("result", "dis") = {0}
      /\ Indices("result", "pds") = 0 .. PDF_INTERVALS_REL - 1
  BY DEF Indices
<1> HIDE DEF coefficients, elements
<1>6. SideKinds = {"fft", "fft.amp", "autocorr", "lap", "gradLen", "dis", "pds"}
      /\ Owners = {"property", "result"}
  BY DEF SideKinds, Owners
<1>7. ASSUME deaths = 0, pending = <<>>, Stored("property"), NEW s, s = disk[<<"property", "main">>].varName
      PROVE  /\ Beside("property", "autocorr", "autocorr", 0 .. AUTOCORR_SIZE - 2, s)
             /\ Beside("property", "fft.amp", "fftCoeff", coefficients, s)
             /\ sessions[s].status = "ANALYZE_DATA" =>
                   /\ Beside("property", "lap", "lap", elements, s)
                   /\ Beside("property", "gradLen", "gradLen", elements, s)
  <2>1. \A kind \in SideKinds :
           Asked("property", kind, sessions[s], shape) =>
               /\ <<"property", kind>> \in DOMAIN disk
               /\ Good("property", kind, disk[<<"property", kind>>], s)
    BY <1>3, <1>6, <1>7 DEF Main
  <2>2. Beside("property", "autocorr", "autocorr", Indices("property", "autocorr"), s)
    <3>1. "autocorr" \in sessions[s].flags => Asked("property", "autocorr", sessions[s], shape)
      BY DEF Asked
    <3> QED
      BY <1>4, <1>6, <2>1, <3>1
  <2>3. Beside("property", "fft.amp", "fftCoeff", Indices("property", "fft.amp"), s)
    <3>1. "fftCoeff" \in sessions[s].flags => Asked("property", "fft.amp", sessions[s], shape)
      BY DEF Asked
    <3> QED
      BY <1>4, <1>6, <2>1, <3>1
  <2>4. ASSUME sessions[s].status = "ANALYZE_DATA", NEW kind \in {"lap", "gradLen"}
        PROVE  Beside("property", kind, kind, Indices("property", kind), s)
    <3>1. kind \in sessions[s].flags => Asked("property", kind, sessions[s], shape)
      BY <2>4 DEF Asked
    <3> QED
      BY <1>4, <1>6, <2>1, <3>1
  <2> QED
    BY <1>5, <1>6, <2>2, <2>3, <2>4
<1>8. ASSUME deaths = 0, pending = <<>>, Stored("result"), NEW s, s = disk[<<"result", "main">>].varName
      PROVE  /\ Beside("result", "dis", "absErrPDF", {0}, s)
             /\ Beside("result", "pds", "pwrErrPDF", 0 .. PDF_INTERVALS_REL - 1, s)
             /\ Beside("result", "autocorr", "autoCorrAbsErr", 0 .. AUTOCORR_SIZE, s)
             /\ shape.dataType = "ZC_FLOAT" =>
                   Beside("result", "fft.amp", "fftCoeff", coefficients, s)
  <2>1. \A kind \in SideKinds :
           Asked("result", kind, sessions[s], shape) =>
               /\ <<"result", kind>> \in DOMAIN disk
               /\ Good("result", kind, disk[<<"result", kind>>], s)
    BY <1>3, <1>6, <1>8 DEF Main
  <2>2. /\ "absErrPDF" \in sessions[s].flags => Asked("result", "dis", sessions[s], shape)
        /\ "pwrErrPDF" \in sessions[s].flags => Asked("result", "pds", sessions[s], shape)
        /\ "autoCorrAbsErr" \in sessions[s].flags => Asked("result", "autocorr", sessions[s], shape)
        /\ shape.dataType = "ZC_FLOAT" =>
              ("fftCoeff" \in sessions[s].flags => Asked("result", "fft.amp", sessions[s], shape))
    BY DEF Asked
  <2>3. Beside("result", "dis", "absErrPDF", Indices("result", "dis"), s)
    BY <1>4, <1>6, <2>1, <2>2
  <2>4. Beside("result", "pds", "pwrErrPDF", Indices("result", "pds"), s)
    BY <1>4, <1>6, <2>1, <2>2
  <2>5. Beside("result", "autocorr", "autoCorrAbsErr", Indices("result", "autocorr"), s)
    BY <1>4, <1>6, <2>1, <2>2
  <2>6. ASSUME shape.dataType = "ZC_FLOAT"
        PROVE  Beside("result", "fft.amp", "fftCoeff", Indices("result", "fft.amp"), s)
    BY <1>4, <1>6, <2>1, <2>2, <2>6
  <2> QED
    BY <1>5, <1>6, <2>3, <2>4, <2>5, <2>6
<1> QED
  BY <1>2, <1>7, <1>8 DEF SideFilesOwn, coefficients, elements

--------------------------------------------------------------------------------
(* The theorems. *)

(* IInv in full: types, the files open, to be written and written.         *)
THEOREM Invariance == Spec => []IInv
<1>1. IInv /\ [Next]_vars => IInv'
  BY StepInv
<1> QED
  BY InitInv, <1>1, PTL DEF Spec

(* ZC_writeStrings opens with "wb": whichever programs write a file one    *)
(* after another, with whatever flags, wherever the buffer of the stream   *)
(* is full and wherever they are killed, the file never holds lines of two *)
(* records; and no program leaves a file cut but by dying.                 *)
THEOREM OwnLinesCorrect == Spec => OnlyOwnLines
<1>1. IInv /\ [Next]_vars => [FilesReplaced]_vars
  BY StepReplaces
<1> QED
  BY <1>1, Invariance, PTL DEF Spec, OnlyOwnLines

(* A report works with the whole record of one session, or with nothing    *)
(* where a program died while it wrote the file, whichever programs ran    *)
(* before it and with whatever flags: ZC_loadDataProperty and              *)
(* ZC_loadCompressionResult never meet lines of two sessions.              *)
THEOREM LoadedCorrect == Spec => []LoadedWhole
<1>1. IInv => LoadedWhole
  BY DEF IInv
<1> QED
  BY <1>1, Invariance, PTL

(* The main file is written first, and each file the flags of its session  *)
(* ask for after it: what lies beside it is never of a later session, and  *)
(* where no program died it is all of that session.                        *)
THEOREM SideFilesCorrect == Spec => []SideFilesOwn
BY InvSideFiles, Invariance, PTL

(* A report finds no filePath only where an earlier program died, or where *)
(* ZC_startCmpr_offline_withDataAnalysis wrote the property; a test dies   *)
(* in writing only after its main file is whole.                           *)
THEOREM DeathsCorrect == Spec => []DeathsExplained
<1>1. IInv => DeathsExplained
  BY DEF IInv
<1> QED
  BY <1>1, Invariance, PTL
================================================================================
