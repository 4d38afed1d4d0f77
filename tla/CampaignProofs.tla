--------------------------- MODULE CampaignProofs ---------------------------
(***************************************************************************)
(* What holds of the campaigns whatever their jobs, and however many        *)
(* kills, stops, failures and rebuilds there are.                           *)
(***************************************************************************)
EXTENDS Campaigns, SequenceTheorems, TLAPS

--------------------------------------------------------------------------------
(* Run directories.                                                           *)

\* Writing into a directory of a sequence leaves the others alone.
LEMMA WritesOne ==
    ASSUME NEW S, NEW s \in Seq(S), NEW d \in DOMAIN s, NEW r \in S
    PROVE  LET t == [s EXCEPT ![d] = r]
           IN  /\ t \in Seq(S) /\ DOMAIN t = DOMAIN s /\ t[d] = r
               /\ \A e \in DOMAIN s : e # d => t[e] = s[e]
  BY ExceptSeq

\* A directory that is not there yet becomes the next one.
LEMMA AppendsOne ==
    ASSUME NEW S, NEW s \in Seq(S), NEW r \in S
    PROVE  LET t == Append(s, r)
           IN  /\ t \in Seq(S) /\ Len(t) = Len(s) + 1 /\ t[Len(s) + 1] = r
               /\ DOMAIN t = 1 .. (Len(s) + 1)
               /\ \A e \in DOMAIN s : e \in DOMAIN t /\ t[e] = s[e]
  BY AppendProperties

\* Stored writes the record asked for, and nothing else.
LEMMA StoresOne ==
    ASSUME NEW s \in Seq(Run), NEW d \in 1 .. (Len(s) + 1), NEW r \in Run
    PROVE  LET t == Stored(s, d, r)
           IN  /\ t \in Seq(Run) /\ d \in DOMAIN t /\ t[d] = r
               /\ DOMAIN s \subseteq DOMAIN t
               /\ \A e \in DOMAIN s : e # d => t[e] = s[e]
  <1>1. CASE d \in DOMAIN s
    BY <1>1, WritesOne DEF Stored
  <1>2. CASE d \notin DOMAIN s
    <2>1. d = Len(s) + 1 /\ Stored(s, d, r) = Append(s, r)
      BY <1>2 DEF Stored
    <2> QED
      BY <2>1, AppendsOne
  <1> QED
    BY <1>1, <1>2

\* The manifests the scripts write.
LEMMA Manifests ==
    /\ NoRun \in Run
    /\ \A tool \in Nat : Begun(tool) \in Run
    /\ \A r \in Run, gaps \in BOOLEAN : \A end \in Ends : Ended(r, end, gaps) \in Run
  BY DEF Run, NoRun, Begun, Ended, Ends

--------------------------------------------------------------------------------
(* The lanes.  Their invariant says of every lane what the job in its hand    *)
(* has been given, and of every row what it may be trusted for.               *)

Sim == [image : BOOLEAN, done : BOOLEAN, roi : BOOLEAN]
LaneState ==
  [pc : {"off", "pick", "announce", "prepare", "launch", "child", "check", "report"},
   n : Nat, fp : Nat, old : Row, dir : Nat, safe : BOOLEAN]

LaneTypes ==
  /\ build \in [Lanes -> Nat]
  /\ rows \in [Jobs -> Row]
  /\ runs \in [Jobs -> Seq(Run)]
  /\ sims \in [Elements(SimJobs) -> Seq(Sim)]
  /\ lane \in [Lanes -> LaneState]

\* A lane that is past its last job has none in hand.
Placed(l) ==
  /\ lane[l].pc # "off" => lane[l].n \in Nat \ {0}
  /\ lane[l].pc \notin {"off", "pick"} => lane[l].n <= Len(Order(l))

\* The record of the job in hand names the tool and the directory of this
\* invocation; nobody else can have completed what its child is writing.
InHand(l) ==
  /\ lane[l].pc \in {"announce", "prepare", "launch", "child", "check"} =>
        rows[Job(l)].state = "running" /\ rows[Job(l)].tool = lane[l].fp
  /\ lane[l].pc \in {"launch", "child", "check"} => rows[Job(l)].dir = lane[l].dir
  /\ l = "pin" =>
        /\ lane[l].pc = "launch" => lane[l].dir \in 1 .. (Len(runs[Job(l)]) + 1)
        /\ lane[l].pc \in {"child", "check"} => lane[l].dir \in DOMAIN runs[Job(l)]
        /\ lane[l].pc = "child" => Directory(l).manifest = "running"
  /\ l = "sim" =>
        /\ lane[l].pc \in {"announce", "prepare"} /\ lane[l].old.snap =>
              lane[l].old.dir \in DOMAIN sims[Job(l)]
        /\ lane[l].pc \in {"launch", "child", "check"} => lane[l].dir \in DOMAIN sims[Job(l)]

\* A row that says complete, or that there is a snapshot, names a directory that
\* is there.
Filed(j) ==
  IF LaneOf(j) = "sim"
  THEN /\ Len(runs[j]) = Len(sims[j])
       /\ rows[j].snap => rows[j].dir \in DOMAIN sims[j]
       /\ rows[j].state = "complete" => rows[j].dir \in DOMAIN sims[j] /\ sims[j][rows[j].dir].roi
  ELSE rows[j].state = "complete" =>
         LET r == runs[j][rows[j].dir]
         IN  /\ rows[j].dir \in DOMAIN runs[j]
             /\ r.manifest = "complete" /\ r.tool = rows[j].tool
             /\ j \in Analysed => rows[j].analysed /\ ~r.gaps

LaneInv ==
  /\ LaneTypes
  /\ \A l \in Lanes : Placed(l) /\ InHand(l)
  /\ \A j \in Jobs : Filed(j)

--------------------------------------------------------------------------------
(* What the steps of a lane have in common.                                   *)

\* A lane that has a job in hand has one of its own.
LEMMA JobInHand ==
    ASSUME NEW l \in Lanes, lane[l].n \in Nat \ {0}, lane[l].n <= Len(Order(l))
    PROVE  /\ Job(l) \in Elements(Order(l)) /\ Job(l) \in Jobs
           /\ LaneOf(Job(l)) = l
           /\ l = "sim" => Job(l) \in Elements(SimJobs) /\ Job(l) \notin Elements(PinJobs)
           /\ l = "pin" => Job(l) \in Elements(PinJobs) /\ Job(l) \notin Elements(SimJobs)
  <1>1. Order(l) \in Seq(Elements(Order(l))) /\ DOMAIN Order(l) = 1 .. Len(Order(l))
    BY LanesAssumption
  <1>2. Job(l) \in Elements(Order(l))
    BY <1>1 DEF Job, Elements
  <1> QED
    BY <1>2, LanesAssumption DEF Jobs, LaneOf, Order, Lanes

\* The jobs in different lanes' hands are different.
LEMMA OtherJob ==
    ASSUME NEW l \in Lanes, NEW m \in Lanes, l # m,
           lane[l].n \in Nat \ {0}, lane[l].n <= Len(Order(l)),
           lane[m].n \in Nat \ {0}, lane[m].n <= Len(Order(m))
    PROVE  Job(l) # Job(m)
  BY JobInHand DEF Lanes

\* A step that changes no file.
LEMMA OnlyTheLane ==
    ASSUME LaneInv, LaneTypes', UNCHANGED <<rows, runs, sims>>,
           NEW l \in Lanes, \A m \in Lanes \ {l} : lane'[m] = lane[m],
           (Placed(l) /\ InHand(l))'
    PROVE  LaneInv'
  <1>1. \A j \in Jobs : Filed(j)'
    BY DEF LaneInv, Filed
  <1>2. ASSUME NEW m \in Lanes \ {l}
        PROVE  (Placed(m) /\ InHand(m))'
    <2>1. Placed(m) /\ InHand(m) /\ lane'[m] = lane[m]
      BY DEF LaneInv
    <2>2. Job(m)' = Job(m)
      BY <2>1 DEF Job, Order
    <2>3. Placed(m)'
      BY <2>1 DEF Placed, Order
    <2>4. InHand(m)'
      BY <2>1, <2>2 DEF InHand, Directory
    <2> QED
      BY <2>3, <2>4
  <1> QED
    BY <1>1, <1>2 DEF LaneInv

\* A step of one lane on the job in its hand.
LEMMA OnlyTheJob ==
    ASSUME LaneInv, LaneTypes',
           NEW l \in Lanes, lane[l].n \in Nat \ {0}, lane[l].n <= Len(Order(l)),
           \A m \in Lanes \ {l} : lane'[m] = lane[m],
           \A j \in Jobs \ {Job(l)} : rows'[j] = rows[j] /\ runs'[j] = runs[j],
           \A j \in Elements(SimJobs) \ {Job(l)} : sims'[j] = sims[j],
           (Placed(l) /\ InHand(l))',
           NEW i, i = Job(l), Filed(i)'
    PROVE  LaneInv'
  <1>1. ASSUME NEW j \in Jobs, j # i
        PROVE  Filed(j)'
    <2>1. Filed(j) /\ rows'[j] = rows[j] /\ runs'[j] = runs[j]
      BY <1>1 DEF LaneInv
    <2>2. LaneOf(j) = "sim" => sims'[j] = sims[j]
      BY <1>1 DEF LaneOf, Jobs
    <2> QED
      BY <2>1, <2>2 DEF Filed, LaneOf
  <1>2. ASSUME NEW m \in Lanes \ {l}
        PROVE  (Placed(m) /\ InHand(m))'
    <2>1. Placed(m) /\ InHand(m) /\ lane'[m] = lane[m]
      BY <1>2 DEF LaneInv
    <2>2. Placed(m)'
      BY <2>1 DEF Placed, Order
    <2>3. CASE lane[m].pc \in {"off", "pick"}
      BY <2>1, <2>2, <2>3 DEF InHand
    <2>4. CASE lane[m].pc \notin {"off", "pick"}
      <3>1. Job(m) # Job(l) /\ Job(m) \in Jobs /\ (m = "sim" => Job(m) \in Elements(SimJobs))
        BY <2>1, <2>4, OtherJob, JobInHand DEF Placed
      <3>2. Job(m)' = Job(m)
        BY <2>1 DEF Job
      <3>3. rows'[Job(m)] = rows[Job(m)] /\ runs'[Job(m)] = runs[Job(m)]
        BY <3>1
      <3>4. m = "sim" => sims'[Job(m)] = sims[Job(m)]
        BY <3>1
      <3> QED
        BY <2>1, <2>2, <3>2, <3>3, <3>4 DEF InHand, Directory
    <2> QED
      BY <2>3, <2>4
  <1> QED
    BY <1>1, <1>2 DEF LaneInv

--------------------------------------------------------------------------------
(* Each step of a lane.                                                       *)

LEMMA Idles == Idle \in LaneState /\ NoRow \in Row /\ Idle.pc = "off"
  BY DEF Idle, LaneState, NoRow, Row

\* A lane that ends leaves what it has saved.
LEMMA LaneEnds ==
    ASSUME LaneInv, NEW l \in Lanes, Off(l), UNCHANGED <<build, rows, runs, sims>>
    PROVE  LaneInv'
  <1>1. lane' = [lane EXCEPT ![l] = Idle] /\ lane \in [Lanes -> LaneState]
    BY DEF Off, LaneInv, LaneTypes
  <1>2. LaneTypes'
    BY <1>1, Idles DEF LaneInv, LaneTypes
  <1>3. lane'[l].pc = "off" /\ \A m \in Lanes \ {l} : lane'[m] = lane[m]
    BY <1>1, Idles
  <1>4. (Placed(l) /\ InHand(l))'
    BY <1>3 DEF Placed, InHand
  <1> QED
    BY <1>2, <1>3, <1>4, OnlyTheLane

\* Start, Skip and what precedes the try block.
LEMMA LaneMoves ==
    ASSUME LaneInv, NEW l \in Lanes, NEW s \in LaneState, lane' = [lane EXCEPT ![l] = s],
           s.pc \in {"pick", "prepare"}, s.n \in Nat \ {0},
           s.pc = "prepare" => /\ lane[l].pc = "announce" /\ s.n = lane[l].n
                               /\ s.fp = lane[l].fp /\ s.old = lane[l].old,
           UNCHANGED <<build, rows, runs, sims>>
    PROVE  LaneInv'
  <1>1. lane \in [Lanes -> LaneState] /\ Placed(l) /\ InHand(l)
    BY DEF LaneInv, LaneTypes
  <1>2. LaneTypes'
    BY <1>1 DEF LaneInv, LaneTypes
  <1>3. lane'[l] = s /\ \A m \in Lanes \ {l} : lane'[m] = lane[m]
    BY <1>1
  <1>4. CASE s.pc = "pick"
    BY <1>2, <1>3, <1>4, OnlyTheLane DEF Placed, InHand
  <1>5. CASE s.pc = "prepare"
    <2>1. /\ lane[l].pc = "announce" /\ s.n = lane[l].n /\ s.fp = lane[l].fp
          /\ s.old = lane[l].old
      BY <1>1, <1>5 DEF LaneState
    <2>2. Job(l)' = Job(l)
      BY <1>3, <2>1 DEF Job, Order
    <2>3. Placed(l)'
      BY <1>1, <1>3, <2>1 DEF Placed, Order
    <2>4. InHand(l)'
      BY <1>1, <1>3, <1>5, <2>1, <2>2 DEF InHand
    <2> QED
      BY <1>2, <1>3, <2>3, <2>4, OnlyTheLane
  <1> QED
    BY <1>4, <1>5

LEMMA StartKeeps ==
    ASSUME LaneInv, NEW l \in Lanes, NEW safe \in BOOLEAN, Start(l, safe)
    PROVE  LaneInv'
  <1> DEFINE p == [Idle EXCEPT !.pc = "pick"]
             q == [p EXCEPT !.n = 1]
             r == [q EXCEPT !.fp = build[l]]
             s == [r EXCEPT !.safe = safe]
  <1>1. lane' = [lane EXCEPT ![l] = s] /\ UNCHANGED <<build, rows, runs, sims>>
    BY DEF Start
  <1>2. build[l] \in Nat
    BY DEF LaneInv, LaneTypes
  <1>3. p \in LaneState /\ p.pc = "pick"
    BY Idles DEF LaneState
  <1> HIDE DEF p
  <1>4. q \in LaneState /\ q.pc = "pick" /\ q.n = 1
    BY <1>3 DEF LaneState
  <1> HIDE DEF q
  <1>5. r \in LaneState /\ r.pc = "pick" /\ r.n = 1
    BY <1>2, <1>4 DEF LaneState
  <1> HIDE DEF r
  <1>6. s \in LaneState /\ s.pc = "pick" /\ s.n \in Nat \ {0}
    BY <1>5 DEF LaneState
  <1> HIDE DEF s
  <1> QED
    BY <1>1, <1>6, LaneMoves

LEMMA SkipKeeps ==
    ASSUME LaneInv, NEW l \in Lanes, Skip(l)
    PROVE  LaneInv'
  <1> DEFINE s == [lane[l] EXCEPT !.n = @ + 1]
  <1>1. lane \in [Lanes -> LaneState] /\ lane[l].n \in Nat \ {0} /\ lane[l].pc = "pick"
    BY DEF Skip, LaneInv, LaneTypes, Placed
  <1>2. lane' = [lane EXCEPT ![l] = s] /\ UNCHANGED <<build, rows, runs, sims>>
    BY DEF Skip
  <1>3. s \in LaneState /\ s.pc = "pick" /\ s.n \in Nat \ {0}
    BY <1>1 DEF LaneState
  <1> HIDE DEF s
  <1> QED
    BY <1>2, <1>3, LaneMoves

LEMMA PublishKeeps ==
    ASSUME LaneInv, NEW l \in Lanes, Publish(l)
    PROVE  LaneInv'
  <1>1. /\ lane \in [Lanes -> LaneState] /\ lane[l].n \in Nat \ {0}
        /\ lane[l].pc \in {"announce", "report"}
        /\ UNCHANGED <<build, rows, runs, sims>>
    BY DEF Publish, LaneInv, LaneTypes, Placed
  <1>2. CASE Off(l)
    BY <1>1, <1>2, LaneEnds
  <1>3. CASE lane[l].pc = "announce" /\ To(l, "prepare")
    <2> DEFINE s == [lane[l] EXCEPT !.pc = "prepare"]
    <2>1. /\ lane' = [lane EXCEPT ![l] = s] /\ s \in LaneState /\ s.pc = "prepare"
          /\ s.n = lane[l].n /\ s.fp = lane[l].fp /\ s.old = lane[l].old
      BY <1>1, <1>3 DEF To, LaneState
    <2> HIDE DEF s
    <2> QED
      BY <1>1, <1>3, <2>1, LaneMoves
  <1>4. CASE lane' = [lane EXCEPT ![l].pc = "pick", ![l].n = @ + 1]
    <2> DEFINE r == [lane[l] EXCEPT !.pc = "pick"]
               s == [r EXCEPT !.n = @ + 1]
    <2>1. lane' = [lane EXCEPT ![l] = s]
      BY <1>1, <1>4
    <2>2. r \in LaneState /\ r.pc = "pick" /\ r.n = lane[l].n
      BY <1>1 DEF LaneState
    <2> HIDE DEF r
    <2>3. s \in LaneState /\ s.pc = "pick" /\ s.n \in Nat \ {0}
      BY <1>1, <2>2 DEF LaneState
    <2> HIDE DEF s
    <2> QED
      BY <1>1, <2>1, <2>3, LaneMoves
  <1> QED
    BY <1>2, <1>3, <1>4 DEF Publish

\* What a lane with a job in hand may count on.
LEMMA Holding ==
    ASSUME LaneInv, NEW l \in Lanes, lane[l].pc \notin {"off", "pick"}
    PROVE  /\ lane[l] \in LaneState /\ lane \in [Lanes -> LaneState]
           /\ lane[l].n \in Nat \ {0} /\ lane[l].n <= Len(Order(l))
           /\ Job(l) \in Jobs /\ LaneOf(Job(l)) = l
           /\ rows \in [Jobs -> Row] /\ rows[Job(l)] \in Row
           /\ runs \in [Jobs -> Seq(Run)] /\ runs[Job(l)] \in Seq(Run)
           /\ l = "sim" => /\ Job(l) \in Elements(SimJobs) /\ Job(l) \notin Elements(PinJobs)
                           /\ sims[Job(l)] \in Seq(Sim)
           /\ l = "pin" => Job(l) \in Elements(PinJobs) /\ Job(l) \notin Elements(SimJobs)
           /\ Filed(Job(l)) /\ InHand(l)
  <1>1. LaneTypes /\ Placed(l) /\ InHand(l)
    BY DEF LaneInv
  <1>2. lane[l].n \in Nat \ {0} /\ lane[l].n <= Len(Order(l))
    BY <1>1 DEF Placed
  <1>3. /\ Job(l) \in Jobs /\ LaneOf(Job(l)) = l
        /\ l = "sim" => Job(l) \in Elements(SimJobs) /\ Job(l) \notin Elements(PinJobs)
        /\ l = "pin" => Job(l) \in Elements(PinJobs) /\ Job(l) \notin Elements(SimJobs)
    BY <1>2, JobInHand
  <1> QED
    BY <1>1, <1>2, <1>3 DEF LaneInv, LaneTypes

\* Saving another state for one job.
LEMMA SavesState ==
    ASSUME rows \in [Jobs -> Row], NEW j \in Jobs,
           NEW how \in {"complete", "failed", "interrupted", "paused"},
           rows' = [rows EXCEPT ![j].state = how]
    PROVE  /\ rows' \in [Jobs -> Row] /\ \A i \in Jobs \ {j} : rows'[i] = rows[i]
           /\ rows'[j].state = how /\ rows'[j].tool = rows[j].tool /\ rows'[j].dir = rows[j].dir
           /\ rows'[j].snap = rows[j].snap /\ rows'[j].analysed = rows[j].analysed
  <1> DEFINE r == [rows[j] EXCEPT !.state = how]
  <1>1. rows' = [rows EXCEPT ![j] = r]
    OBVIOUS
  <1>2. rows[j] \in Row
    OBVIOUS
  <1>3. /\ r \in Row /\ r.state = how /\ r.tool = rows[j].tool /\ r.dir = rows[j].dir
        /\ r.snap = rows[j].snap /\ r.analysed = rows[j].analysed
    BY <1>2 DEF Row
  <1> HIDE DEF r
  <1> QED
    BY <1>1, <1>3

\* Writing one record of one job.
LEMMA WritesRecord ==
    ASSUME NEW S, NEW D, NEW f \in [D -> Seq(S)], NEW j \in D, NEW d \in DOMAIN f[j], NEW r \in S
    PROVE  LET g == [f EXCEPT ![j][d] = r]
           IN  /\ g \in [D -> Seq(S)] /\ \A i \in D \ {j} : g[i] = f[i]
               /\ DOMAIN g[j] = DOMAIN f[j] /\ Len(g[j]) = Len(f[j]) /\ g[j][d] = r
               /\ \A e \in DOMAIN f[j] : e # d => g[j][e] = f[j][e]
  <1> DEFINE t == [f[j] EXCEPT ![d] = r]
             g == [f EXCEPT ![j] = t]
  <1>1. f[j] \in Seq(S)
    OBVIOUS
  <1>2. /\ t \in Seq(S) /\ DOMAIN t = DOMAIN f[j] /\ Len(t) = Len(f[j]) /\ t[d] = r
        /\ \A e \in DOMAIN f[j] : e # d => t[e] = f[j][e]
    BY <1>1, ExceptSeq
  <1>3. g = [f EXCEPT ![j][d] = r]
    OBVIOUS
  <1>4. g \in [D -> Seq(S)] /\ g[j] = t /\ \A i \in D \ {j} : g[i] = f[i]
    BY <1>2
  <1> HIDE DEF t, g
  <1> QED
    BY <1>2, <1>3, <1>4

\* What a job's files look like after a child has written one record there.
WroteRun(l) ==
  \/ UNCHANGED runs
  \/ /\ l = "pin" /\ lane[l].dir \in DOMAIN runs[Job(l)]
     /\ \E r \in Run : runs' = [runs EXCEPT ![Job(l)][lane[l].dir] = r]
WroteSim(l) ==
  \/ UNCHANGED sims
  \/ /\ l = "sim" /\ lane[l].dir \in DOMAIN sims[Job(l)]
     /\ \E r \in Sim : sims' = [sims EXCEPT ![Job(l)][lane[l].dir] = r]

LEMMA FilesAfter ==
    ASSUME LaneInv, NEW l \in Lanes, lane[l].pc \notin {"off", "pick"},
           WroteRun(l), WroteSim(l)
    PROVE  /\ runs' \in [Jobs -> Seq(Run)] /\ sims' \in [Elements(SimJobs) -> Seq(Sim)]
           /\ \A i \in Jobs \ {Job(l)} : runs'[i] = runs[i]
           /\ \A i \in Elements(SimJobs) \ {Job(l)} : sims'[i] = sims[i]
           /\ DOMAIN runs'[Job(l)] = DOMAIN runs[Job(l)]
           /\ Len(runs'[Job(l)]) = Len(runs[Job(l)])
           /\ l = "sim" => /\ DOMAIN sims'[Job(l)] = DOMAIN sims[Job(l)]
                           /\ Len(sims'[Job(l)]) = Len(sims[Job(l)])
           /\ l = "pin" => UNCHANGED sims
           /\ l = "sim" => UNCHANGED runs
  <1>1. /\ Job(l) \in Jobs /\ runs \in [Jobs -> Seq(Run)]
        /\ sims \in [Elements(SimJobs) -> Seq(Sim)]
        /\ l = "sim" => Job(l) \in Elements(SimJobs)
    BY Holding DEF LaneInv, LaneTypes
  <1>2. CASE UNCHANGED <<runs, sims>>
    BY <1>1, <1>2
  <1>3. ASSUME NEW r \in Run, l = "pin", UNCHANGED sims, lane[l].dir \in DOMAIN runs[Job(l)],
               runs' = [runs EXCEPT ![Job(l)][lane[l].dir] = r]
        PROVE  /\ runs' \in [Jobs -> Seq(Run)] /\ \A i \in Jobs \ {Job(l)} : runs'[i] = runs[i]
               /\ DOMAIN runs'[Job(l)] = DOMAIN runs[Job(l)]
               /\ Len(runs'[Job(l)]) = Len(runs[Job(l)])
    BY <1>1, <1>3, WritesRecord
  <1>4. ASSUME NEW r \in Sim, l = "sim", UNCHANGED runs, lane[l].dir \in DOMAIN sims[Job(l)],
               sims' = [sims EXCEPT ![Job(l)][lane[l].dir] = r]
        PROVE  /\ sims' \in [Elements(SimJobs) -> Seq(Sim)]
               /\ \A i \in Elements(SimJobs) \ {Job(l)} : sims'[i] = sims[i]
               /\ DOMAIN sims'[Job(l)] = DOMAIN sims[Job(l)]
               /\ Len(sims'[Job(l)]) = Len(sims[Job(l)])
    BY <1>1, <1>4, WritesRecord
  <1>5. CASE UNCHANGED runs
    BY <1>1, <1>2, <1>4, <1>5 DEF WroteSim
  <1>6. CASE UNCHANGED sims
    BY <1>1, <1>2, <1>3, <1>6 DEF WroteRun
  <1> QED
    BY <1>5, <1>6 DEF WroteRun, WroteSim

\* A job is given up: the lane ends, or goes on with the next one.
LEMMA JobCloses ==
    ASSUME LaneInv, NEW l \in Lanes, lane[l].pc \notin {"off", "pick"},
           NEW how \in {"failed", "interrupted", "paused"},
           rows' = [rows EXCEPT ![Job(l)].state = how],
           Off(l) \/ To(l, "report"), UNCHANGED build, WroteRun(l), WroteSim(l)
    PROVE  LaneInv'
  <1> PICK j : j = Job(l)
    OBVIOUS
  <1>1. /\ lane[l] \in LaneState /\ lane \in [Lanes -> LaneState]
        /\ lane[l].n \in Nat \ {0} /\ lane[l].n <= Len(Order(l))
        /\ j \in Jobs /\ LaneOf(j) = l /\ Filed(j) /\ rows \in [Jobs -> Row]
    BY Holding
  <1>2. /\ rows' \in [Jobs -> Row] /\ \A i \in Jobs \ {j} : rows'[i] = rows[i]
        /\ rows'[j].state = how /\ rows'[j].dir = rows[j].dir /\ rows'[j].snap = rows[j].snap
    BY <1>1, SavesState
  <1>3. \/ lane' = [lane EXCEPT ![l] = Idle]
        \/ lane' = [lane EXCEPT ![l].pc = "report"]
    BY DEF Off, To
  <1>4. /\ lane' \in [Lanes -> LaneState] /\ \A m \in Lanes \ {l} : lane'[m] = lane[m]
        /\ \/ lane'[l].pc = "off"
           \/ lane'[l].pc = "report" /\ lane'[l].n = lane[l].n
    <2>1. CASE lane' = [lane EXCEPT ![l] = Idle]
      BY <1>1, <2>1, Idles
    <2>2. CASE lane' = [lane EXCEPT ![l].pc = "report"]
      BY <1>1, <2>2 DEF LaneState
    <2> QED
      BY <1>3, <2>1, <2>2
  <1>5. LaneTypes'
    BY <1>2, <1>4, FilesAfter DEF LaneInv, LaneTypes
  <1>6. (Placed(l) /\ InHand(l))'
    BY <1>1, <1>4 DEF Placed, InHand, Order
  <1>7. Filed(j)'
    BY <1>1, <1>2, FilesAfter DEF Filed, LaneOf
  <1> QED
    BY <1>1, <1>2, <1>4, <1>5, <1>6, <1>7, FilesAfter, OnlyTheJob

\* A lane moves its label only.
LEMMA Labels ==
    ASSUME lane \in [Lanes -> LaneState], NEW l \in Lanes,
           NEW p \in {"prepare", "launch", "child", "check", "report"}, To(l, p)
    PROVE  /\ lane' \in [Lanes -> LaneState] /\ \A m \in Lanes \ {l} : lane'[m] = lane[m]
           /\ lane'[l].pc = p /\ lane'[l].n = lane[l].n /\ lane'[l].fp = lane[l].fp
           /\ lane'[l].dir = lane[l].dir
  <1> DEFINE s == [lane[l] EXCEPT !.pc = p]
  <1>1. lane' = [lane EXCEPT ![l] = s]
    BY DEF To
  <1>2. /\ s \in LaneState /\ s.pc = p /\ s.n = lane[l].n /\ s.fp = lane[l].fp
        /\ s.dir = lane[l].dir
    BY DEF LaneState
  <1> HIDE DEF s
  <1> QED
    BY <1>1, <1>2

\* The child of a lane is started, goes on or ends, and no row is saved.
LEMMA ChildRuns ==
    ASSUME LaneInv, NEW l \in Lanes, lane[l].pc \in {"launch", "child"},
           NEW p \in {"child", "check"}, UNCHANGED <<build, rows>>,
           lane' \in [Lanes -> LaneState], \A m \in Lanes \ {l} : lane'[m] = lane[m],
           lane'[l].pc = p, lane'[l].n = lane[l].n, lane'[l].fp = lane[l].fp,
           lane'[l].dir = lane[l].dir,
           runs' \in [Jobs -> Seq(Run)], sims' \in [Elements(SimJobs) -> Seq(Sim)],
           \A i \in Jobs \ {Job(l)} : runs'[i] = runs[i],
           \A i \in Elements(SimJobs) \ {Job(l)} : sims'[i] = sims[i],
           l = "pin" => /\ lane[l].dir \in DOMAIN runs'[Job(l)]
                        /\ p = "child" => runs'[Job(l)][lane[l].dir].manifest = "running",
           l = "sim" => /\ Len(runs'[Job(l)]) = Len(sims'[Job(l)])
                        /\ DOMAIN sims'[Job(l)] = DOMAIN sims[Job(l)]
    PROVE  LaneInv'
  <1> PICK j : j = Job(l)
    OBVIOUS
  <1>1. /\ lane[l].n \in Nat \ {0} /\ lane[l].n <= Len(Order(l))
        /\ j \in Jobs /\ LaneOf(j) = l /\ Filed(j) /\ InHand(l)
    BY Holding
  <1>2. LaneTypes'
    BY DEF LaneInv, LaneTypes
  <1>3. Job(l)' = j
    BY DEF Job, Order
  <1>4. rows'[j].state = "running" /\ rows'[j] = rows[j]
    BY <1>1 DEF InHand
  <1>5. Filed(j)'
    BY <1>1, <1>4 DEF Filed, LaneOf, Lanes
  <1>6. Placed(l)'
    BY <1>1 DEF Placed, Order
  <1>7. InHand(l)'
    BY <1>1, <1>3, <1>4 DEF InHand, Directory
  <1> QED
    BY <1>1, <1>2, <1>5, <1>6, <1>7, OnlyTheJob

LEMMA PickKeeps ==
    ASSUME LaneInv, NEW l \in Lanes, Pick(l)
    PROVE  LaneInv'
  <1> PICK j : j = Job(l)
    OBVIOUS
  <1>1. /\ lane \in [Lanes -> LaneState] /\ rows \in [Jobs -> Row] /\ Placed(l)
        /\ lane[l].pc = "pick" /\ lane[l].n <= Len(Order(l)) /\ lane[l].n \in Nat \ {0}
    BY DEF LaneInv, LaneTypes, Pick, Placed
  <1>2. /\ j \in Jobs /\ LaneOf(j) = l
        /\ l = "sim" => j \in Elements(SimJobs)
    BY <1>1, JobInHand
  <1>3. Filed(j) /\ rows[j] \in Row
    BY <1>1, <1>2 DEF LaneInv
  <1> DEFINE r == [NoRow EXCEPT !.state = "running"]
             fresh == [r EXCEPT !.tool = lane[l].fp]
             p == [lane[l] EXCEPT !.pc = "announce"]
             q == [p EXCEPT !.old = rows[j]]
             s == [q EXCEPT !.dir = 0]
  <1>4. /\ rows' = [rows EXCEPT ![j] = fresh] /\ lane' = [lane EXCEPT ![l] = s]
        /\ UNCHANGED <<build, runs, sims>>
    BY <1>1 DEF Pick
  <1>5. r \in Row /\ r.state = "running" /\ ~r.snap
    BY DEF NoRow, Row
  <1> HIDE DEF r
  <1>6. fresh \in Row /\ fresh.state = "running" /\ fresh.tool = lane[l].fp /\ ~fresh.snap
    BY <1>1, <1>5 DEF Row, LaneState
  <1> HIDE DEF fresh
  <1>7. p \in LaneState /\ p.pc = "announce" /\ p.n = lane[l].n /\ p.fp = lane[l].fp
    BY <1>1 DEF LaneState
  <1> HIDE DEF p
  <1>8. /\ q \in LaneState /\ q.pc = "announce" /\ q.n = lane[l].n /\ q.fp = lane[l].fp
        /\ q.old = rows[j]
    BY <1>3, <1>7 DEF LaneState
  <1> HIDE DEF q
  <1>9. /\ s \in LaneState /\ s.pc = "announce" /\ s.n = lane[l].n /\ s.fp = lane[l].fp
        /\ s.old = rows[j]
    BY <1>8 DEF LaneState
  <1> HIDE DEF s
  <1>10. lane'[l] = s /\ rows'[j] = fresh
    BY <1>1, <1>2, <1>4
  <1>11. LaneTypes'
    BY <1>1, <1>4, <1>6, <1>9 DEF LaneInv, LaneTypes
  <1>12. Job(l)' = j
    BY <1>9, <1>10 DEF Job, Order
  <1>13. Filed(j)'
    BY <1>2, <1>3, <1>4, <1>6, <1>10 DEF Filed, LaneOf
  <1>14. Placed(l)'
    BY <1>1, <1>9, <1>10 DEF Placed, Order
  <1>15. l = "sim" /\ rows[j].snap => rows[j].dir \in DOMAIN sims'[j]
    BY <1>2, <1>3, <1>4 DEF Filed
  <1>16. InHand(l)'
    BY <1>6, <1>9, <1>10, <1>12, <1>15 DEF InHand
  <1>17. /\ \A m \in Lanes \ {l} : lane'[m] = lane[m]
         /\ \A i \in Jobs \ {j} : rows'[i] = rows[i] /\ runs'[i] = runs[i]
         /\ \A i \in Elements(SimJobs) \ {j} : sims'[i] = sims[i]
    BY <1>1, <1>4
  <1> QED
    BY <1>1, <1>11, <1>13, <1>14, <1>16, <1>17, OnlyTheJob

\* Where a job is sent is the next directory, or one that is there.
LEMMA TargetIsThere ==
    ASSUME LaneInv, NEW l \in Lanes, lane[l].pc = "prepare"
    PROVE  /\ Target(l) \in Nat
           /\ l = "pin" => Target(l) \in 1 .. (Len(runs[Job(l)]) + 1)
           /\ l = "sim" => IF Resumes(l) THEN Target(l) \in DOMAIN sims[Job(l)]
                           ELSE Target(l) = Len(sims[Job(l)]) + 1
  <1>1. /\ Job(l) \in Jobs /\ LaneOf(Job(l)) = l /\ runs[Job(l)] \in Seq(Run)
        /\ l = "sim" => Job(l) \notin Elements(PinJobs) /\ sims[Job(l)] \in Seq(Sim)
        /\ Filed(Job(l)) /\ InHand(l)
    BY Holding
  <1>2. CASE l = "pin"
    BY <1>1, <1>2 DEF Target, Resumes
  <1>3. CASE l = "sim" /\ Resumes(l)
    BY <1>1, <1>3 DEF Target, Resumes, InHand
  <1>4. CASE l = "sim" /\ ~Resumes(l)
    <2>1. Target(l) = Len(runs[Job(l)]) + 1
      BY <1>1, <1>4 DEF Target
    <2>2. Len(runs[Job(l)]) = Len(sims[Job(l)])
      BY <1>1, <1>4 DEF Filed
    <2> QED
      BY <1>1, <1>4, <2>1, <2>2
  <1> QED
    BY <1>2, <1>3, <1>4 DEF Lanes

LEMMA PrepareKeeps ==
    ASSUME LaneInv, NEW l \in Lanes, Prepare(l)
    PROVE  LaneInv'
  <1> PICK j : j = Job(l)
    OBVIOUS
  <1> PICK d : d = Target(l)
    OBVIOUS
  <1>1. /\ lane[l] \in LaneState /\ lane \in [Lanes -> LaneState] /\ lane[l].pc = "prepare"
        /\ lane[l].n \in Nat \ {0} /\ lane[l].n <= Len(Order(l))
        /\ j \in Jobs /\ LaneOf(j) = l
        /\ rows \in [Jobs -> Row] /\ rows[j] \in Row
        /\ runs \in [Jobs -> Seq(Run)] /\ runs[j] \in Seq(Run)
        /\ l = "sim" => j \in Elements(SimJobs) /\ sims[j] \in Seq(Sim)
        /\ Filed(j) /\ InHand(l)
    BY Holding DEF Prepare
  <1>2. /\ d \in Nat
        /\ l = "pin" => d \in 1 .. (Len(runs[j]) + 1)
        /\ l = "sim" => IF Resumes(l) THEN d \in DOMAIN sims[j] ELSE d = Len(sims[j]) + 1
    BY <1>1, TargetIsThere
  <1> DEFINE q == [rows[j] EXCEPT !.dir = d]
             r == [q EXCEPT !.snap = lane[l].safe]
             p == [lane[l] EXCEPT !.pc = "launch"]
             s == [p EXCEPT !.dir = d]
  <1>3. /\ rows' = [rows EXCEPT ![j] = r] /\ lane' = [lane EXCEPT ![l] = s] /\ UNCHANGED build
    BY <1>1 DEF Prepare
  <1>4. q \in Row /\ q.state = rows[j].state /\ q.tool = rows[j].tool /\ q.dir = d
    BY <1>1, <1>2 DEF Row
  <1> HIDE DEF q
  <1>5. /\ r \in Row /\ r.state = rows[j].state /\ r.tool = rows[j].tool /\ r.dir = d
        /\ r.snap = lane[l].safe
    BY <1>1, <1>4 DEF Row, LaneState
  <1> HIDE DEF r
  <1>6. p \in LaneState /\ p.pc = "launch" /\ p.n = lane[l].n /\ p.fp = lane[l].fp
    BY <1>1 DEF LaneState
  <1> HIDE DEF p
  <1>7. s \in LaneState /\ s.pc = "launch" /\ s.n = lane[l].n /\ s.fp = lane[l].fp /\ s.dir = d
    BY <1>2, <1>6 DEF LaneState
  <1> HIDE DEF s
  <1>8. /\ rows' \in [Jobs -> Row] /\ rows'[j] = r /\ \A i \in Jobs \ {j} : rows'[i] = rows[i]
        /\ lane' \in [Lanes -> LaneState] /\ lane'[l] = s
        /\ \A m \in Lanes \ {l} : lane'[m] = lane[m]
    BY <1>1, <1>3, <1>5, <1>7
  <1>9. /\ runs' \in [Jobs -> Seq(Run)] /\ sims' \in [Elements(SimJobs) -> Seq(Sim)]
        /\ \A i \in Jobs \ {j} : runs'[i] = runs[i]
        /\ \A i \in Elements(SimJobs) \ {j} : sims'[i] = sims[i]
        /\ l = "pin" => d \in 1 .. (Len(runs'[j]) + 1)
        /\ l = "sim" => Len(runs'[j]) = Len(sims'[j]) /\ d \in DOMAIN sims'[j]
    <2>1. sims \in [Elements(SimJobs) -> Seq(Sim)] /\ NoSim \in Sim /\ NoRun \in Run
      BY Manifests DEF LaneInv, LaneTypes, NoSim, Sim
    <2>2. CASE l = "sim" /\ ~Resumes(l)
      <3>1. runs' = [runs EXCEPT ![j] = Append(@, NoRun)] /\ sims' = [sims EXCEPT ![j] = Append(@, NoSim)]
        BY <2>2 DEF Prepare
      <3>2. Len(runs[j]) = Len(sims[j])
        BY <1>1, <2>2 DEF Filed
      <3> DEFINE a == Append(runs[j], NoRun)
                 b == Append(sims[j], NoSim)
      <3>3. a \in Seq(Run) /\ b \in Seq(Sim) /\ Len(a) = Len(b) /\ d \in DOMAIN b
        BY <1>1, <1>2, <2>1, <2>2, <3>2, AppendsOne
      <3> HIDE DEF a, b
      <3>4. runs' = [runs EXCEPT ![j] = a] /\ sims' = [sims EXCEPT ![j] = b]
        BY <3>1 DEF a, b
      <3> QED
        BY <1>1, <2>1, <2>2, <3>3, <3>4
    <2>3. CASE ~(l = "sim" /\ ~Resumes(l))
      <3>1. UNCHANGED <<runs, sims>>
        BY <2>3 DEF Prepare
      <3>2. l = "sim" => Len(runs[j]) = Len(sims[j])
        BY <1>1 DEF Filed
      <3> QED
        BY <1>1, <1>2, <2>1, <2>3, <3>1, <3>2
    <2> QED
      BY <2>2, <2>3
  <1>10. LaneTypes'
    BY <1>3, <1>8, <1>9 DEF LaneInv, LaneTypes
  <1>11. Job(l)' = j
    BY <1>7, <1>8 DEF Job, Order
  <1>12. rows'[j].state = "running" /\ rows'[j].tool = lane'[l].fp
    BY <1>1, <1>5, <1>7, <1>8 DEF InHand
  <1>13. Filed(j)'
    BY <1>1, <1>5, <1>8, <1>9, <1>12 DEF Filed, LaneOf
  <1>14. Placed(l)'
    BY <1>1, <1>7, <1>8 DEF Placed, Order
  <1>15. InHand(l)'
    BY <1>5, <1>7, <1>8, <1>9, <1>11, <1>12 DEF InHand
  <1> QED
    BY <1>1, <1>8, <1>9, <1>10, <1>13, <1>14, <1>15, OnlyTheJob

\* Giving a job up before or after its child has written something.
LEMMA FailsKeeps ==
    ASSUME LaneInv, NEW l \in Lanes, lane[l].pc \notin {"off", "pick"}, Fails(l),
           UNCHANGED build, WroteRun(l), WroteSim(l)
    PROVE  LaneInv'
  BY JobCloses DEF Fails

LEMMA LaunchPinKeeps ==
    ASSUME LaneInv, LaunchPin
    PROVE  LaneInv'
  <1> PICK j : j = Job("pin")
    OBVIOUS
  <1> DEFINE d == lane["pin"].dir
             r == RunAt(runs[j], d)
             tool == build["pin"]
  <1>1. /\ lane["pin"] \in LaneState /\ lane \in [Lanes -> LaneState]
        /\ lane["pin"].pc = "launch" /\ "pin" \in Lanes
        /\ j \in Jobs /\ j \notin Elements(SimJobs)
        /\ runs \in [Jobs -> Seq(Run)] /\ runs[j] \in Seq(Run) /\ InHand("pin")
    BY Holding DEF LaunchPin, Lanes
  <1>2. d \in 1 .. (Len(runs[j]) + 1) /\ tool \in Nat /\ sims \in [Elements(SimJobs) -> Seq(Sim)]
    BY <1>1 DEF InHand, LaneInv, LaneTypes
  <1>3. UNCHANGED <<build, sims>>
    BY DEF LaunchPin
  <1>4. CASE Fails("pin") /\ UNCHANGED runs
    BY <1>1, <1>3, <1>4, FailsKeeps DEF WroteRun, WroteSim
  <1>5. CASE Skips(r, tool) /\ To("pin", "check") /\ UNCHANGED <<rows, runs>>
    <2>1. d \in DOMAIN runs[j]
      BY <1>5 DEF Skips, RunAt, NoRun
    <2> HIDE DEF d
    <2> QED
      BY <1>1, <1>2, <1>3, <1>5, <2>1, Labels, ChildRuns, SMTT(60) DEF d
  <1>6. CASE /\ runs' = [runs EXCEPT ![j] = Stored(@, d, Begun(tool))]
             /\ To("pin", "child") /\ UNCHANGED rows
    <2> DEFINE t == Stored(runs[j], d, Begun(tool))
    <2>1. t \in Seq(Run) /\ d \in DOMAIN t /\ t[d] = Begun(tool)
      BY <1>1, <1>2, Manifests, StoresOne
    <2>2. Begun(tool).manifest = "running"
      BY DEF Begun, NoRun
    <2>3. runs' = [runs EXCEPT ![j] = t]
      BY <1>6
    <2> HIDE DEF t
    <2>4. /\ runs' \in [Jobs -> Seq(Run)] /\ runs'[j] = t
          /\ \A i \in Jobs \ {j} : runs'[i] = runs[i]
      BY <1>1, <2>1, <2>3
    <2>5. runs'[j][d].manifest = "running" /\ d \in DOMAIN runs'[j]
      BY <2>1, <2>2, <2>4
    <2> QED
      BY <1>1, <1>2, <1>3, <1>6, <2>4, <2>5, Labels, ChildRuns
  <1> QED
    BY <1>4, <1>5, <1>6 DEF LaunchPin

LEMMA LaunchSimKeeps ==
    ASSUME LaneInv, LaunchSim
    PROVE  LaneInv'
  <1> PICK j : j = Job("sim")
    OBVIOUS
  <1> DEFINE d == lane["sim"].dir
             tool == build["sim"]
  <1>1. /\ lane["sim"] \in LaneState /\ lane \in [Lanes -> LaneState]
        /\ lane["sim"].pc = "launch" /\ "sim" \in Lanes
        /\ j \in Jobs /\ j \in Elements(SimJobs) /\ LaneOf(j) = "sim" /\ Filed(j)
        /\ runs \in [Jobs -> Seq(Run)] /\ runs[j] \in Seq(Run) /\ sims[j] \in Seq(Sim)
        /\ InHand("sim")
    BY Holding DEF LaunchSim, Lanes
  <1>2. /\ d \in DOMAIN sims[j] /\ tool \in Nat /\ sims \in [Elements(SimJobs) -> Seq(Sim)]
        /\ Len(runs[j]) = Len(sims[j]) /\ d \in DOMAIN runs[j]
    BY <1>1 DEF InHand, LaneInv, LaneTypes, Filed
  <1>3. UNCHANGED <<build, sims>>
    BY DEF LaunchSim
  <1>4. CASE Fails("sim") /\ UNCHANGED runs
    BY <1>1, <1>3, <1>4, FailsKeeps DEF WroteRun, WroteSim
  <1>5. CASE To("sim", "check") /\ UNCHANGED <<rows, runs>>
    BY <1>1, <1>2, <1>3, <1>5, Labels, ChildRuns
  <1>6. CASE /\ runs' = [runs EXCEPT ![j][d] = Begun(build["sim"])]
             /\ To("sim", "child") /\ UNCHANGED rows
    <2> DEFINE b == Begun(tool)
    <2>1. b \in Run /\ runs' = [runs EXCEPT ![j][d] = b]
      BY <1>2, <1>6, Manifests
    <2> HIDE DEF b
    <2>2. /\ runs' \in [Jobs -> Seq(Run)] /\ Len(runs'[j]) = Len(runs[j])
          /\ \A i \in Jobs \ {j} : runs'[i] = runs[i]
      BY <1>1, <1>2, <2>1, WritesRecord
    <2>3. /\ lane' \in [Lanes -> LaneState] /\ \A m \in Lanes \ {"sim"} : lane'[m] = lane[m]
          /\ lane'["sim"].pc = "child" /\ lane'["sim"].n = lane["sim"].n
          /\ lane'["sim"].fp = lane["sim"].fp /\ lane'["sim"].dir = lane["sim"].dir
      BY <1>1, <1>6, Labels
    <2> QED
      BY <1>1, <1>2, <1>3, <1>6, <2>2, <2>3, ChildRuns
  <1> QED
    BY <1>4, <1>5, <1>6 DEF LaunchSim

LEMMA CollectKeeps ==
    ASSUME LaneInv, NEW gaps \in BOOLEAN, Collect(gaps)
    PROVE  LaneInv'
  <1> PICK j : j = Job("pin")
    OBVIOUS
  <1> DEFINE d == lane["pin"].dir
             e == Ended(runs[j][d], "complete", gaps)
  <1>1. /\ lane \in [Lanes -> LaneState] /\ lane["pin"].pc = "child" /\ "pin" \in Lanes
        /\ j \in Jobs /\ j \notin Elements(SimJobs)
        /\ runs \in [Jobs -> Seq(Run)] /\ runs[j] \in Seq(Run) /\ InHand("pin")
    BY Holding DEF Collect, Lanes
  <1>2. /\ d \in DOMAIN runs[j] /\ sims \in [Elements(SimJobs) -> Seq(Sim)]
    BY <1>1 DEF InHand, LaneInv, LaneTypes
  <1>3. e \in Run /\ runs' = [runs EXCEPT ![j][d] = e]
    BY <1>1, <1>2, Manifests DEF Collect, Ends
  <1> HIDE DEF e
  <1>4. /\ runs' \in [Jobs -> Seq(Run)] /\ DOMAIN runs'[j] = DOMAIN runs[j]
        /\ \A i \in Jobs \ {j} : runs'[i] = runs[i]
    BY <1>1, <1>2, <1>3, WritesRecord
  <1>5. UNCHANGED <<build, rows, sims>>
    BY DEF Collect
  <1>6. /\ lane' \in [Lanes -> LaneState] /\ \A m \in Lanes \ {"pin"} : lane'[m] = lane[m]
        /\ lane'["pin"].pc = "check" /\ lane'["pin"].n = lane["pin"].n
        /\ lane'["pin"].fp = lane["pin"].fp /\ lane'["pin"].dir = lane["pin"].dir
    BY <1>1, Labels DEF Collect
  <1> QED
    BY <1>1, <1>2, <1>4, <1>5, <1>6, ChildRuns

LEMMA CollectFailsKeeps ==
    ASSUME LaneInv, CollectFails
    PROVE  LaneInv'
  <1>1. /\ lane["pin"].pc = "child" /\ "pin" \in Lanes /\ InHand("pin")
        /\ Job("pin") \in Jobs /\ runs[Job("pin")] \in Seq(Run)
    BY Holding DEF CollectFails, Lanes
  <1>2. lane["pin"].dir \in DOMAIN runs[Job("pin")]
    BY <1>1 DEF InHand
  <1>3. PICK end \in {"limited", "failed"} :
          runs' = [runs EXCEPT ![Job("pin")][lane["pin"].dir] = Ended(@, end, FALSE)]
    BY DEF CollectFails
  <1>4. Ended(runs[Job("pin")][lane["pin"].dir], end, FALSE) \in Run
    <2>1. runs[Job("pin")][lane["pin"].dir] \in Run /\ end \in Ends /\ FALSE \in BOOLEAN
      BY <1>1, <1>2 DEF Ends
    <2> QED
      BY <2>1, Manifests
  <1>5. WroteRun("pin") /\ WroteSim("pin")
    BY <1>2, <1>3, <1>4 DEF WroteRun, WroteSim, CollectFails
  <1> QED
    BY <1>1, <1>5, FailsKeeps DEF CollectFails

\* What the simulator writes stays in its directory.
LEMMA SimWrites ==
    ASSUME LaneInv, lane["sim"].pc = "child", NEW r \in Sim, AtSim(r)
    PROVE  WroteSim("sim") /\ UNCHANGED build
  BY Holding DEF Lanes, InHand, WroteSim, AtSim

LEMMA SimStates ==
    ASSUME LaneInv, lane["sim"].pc = "child"
    PROVE  /\ Here \in Sim /\ [Here EXCEPT !.image = TRUE] \in Sim
           /\ [Here EXCEPT !.done = lane["sim"].safe] \in Sim
           /\ [Here EXCEPT !.roi = TRUE, !.done = lane["sim"].safe] \in Sim
  <1>1. Here \in Sim /\ lane["sim"].safe \in BOOLEAN
    BY Holding DEF Lanes, InHand, Here, LaneState
  <1> DEFINE r == [Here EXCEPT !.roi = TRUE]
  <1>2. r \in Sim /\ [Here EXCEPT !.image = TRUE] \in Sim /\ [Here EXCEPT !.done = lane["sim"].safe] \in Sim
    BY <1>1 DEF Sim
  <1>3. [Here EXCEPT !.roi = TRUE, !.done = lane["sim"].safe] = [r EXCEPT !.done = lane["sim"].safe]
    OBVIOUS
  <1> HIDE DEF r
  <1>4. [r EXCEPT !.done = lane["sim"].safe] \in Sim
    BY <1>1, <1>2 DEF Sim
  <1> QED
    BY <1>1, <1>2, <1>3, <1>4

\* A snapshot is taken, or the simulation comes to its end.
LEMMA SimRuns ==
    ASSUME LaneInv, lane["sim"].pc = "child", NEW r \in Sim, AtSim(r), UNCHANGED <<rows, runs>>,
           UNCHANGED lane \/ To("sim", "check")
    PROVE  LaneInv'
  <1> PICK j : j = Job("sim")
    OBVIOUS
  <1>1. /\ lane \in [Lanes -> LaneState] /\ "sim" \in Lanes /\ LaneOf(j) = "sim" /\ Filed(j)
        /\ WroteSim("sim") /\ WroteRun("sim") /\ UNCHANGED build
    BY Holding, SimWrites DEF Lanes, WroteRun
  <1>2. /\ runs' \in [Jobs -> Seq(Run)] /\ sims' \in [Elements(SimJobs) -> Seq(Sim)]
        /\ \A i \in Jobs \ {j} : runs'[i] = runs[i]
        /\ \A i \in Elements(SimJobs) \ {j} : sims'[i] = sims[i]
        /\ Len(runs'[j]) = Len(runs[j]) /\ DOMAIN sims'[j] = DOMAIN sims[j]
        /\ Len(sims'[j]) = Len(sims[j])
    BY <1>1, FilesAfter
  <1>3. Len(runs'[j]) = Len(sims'[j])
    BY <1>1, <1>2 DEF Filed
  <1>4. /\ lane' \in [Lanes -> LaneState] /\ \A m \in Lanes \ {"sim"} : lane'[m] = lane[m]
        /\ lane'["sim"].pc \in {"child", "check"} /\ lane'["sim"].n = lane["sim"].n
        /\ lane'["sim"].fp = lane["sim"].fp /\ lane'["sim"].dir = lane["sim"].dir
    BY <1>1, Labels
  <1> QED
    BY <1>1, <1>2, <1>3, <1>4, ChildRuns

LEMMA SimulatorKeeps ==
    ASSUME LaneInv, Snapshot \/ Simulate \/ SimulateShort \/ SimulateFails \/ PauseRun
    PROVE  LaneInv'
  <1>1. lane["sim"].pc = "child" /\ "sim" \in Lanes
    BY DEF Snapshot, Simulate, SimulateShort, SimulateFails, PauseRun, Lanes
  <1>2. CASE Snapshot
    BY <1>1, <1>2, SimStates, SimRuns DEF Snapshot
  <1>3. CASE Simulate
    BY <1>1, <1>3, SimStates, SimRuns DEF Simulate
  <1>4. CASE SimulateShort
    BY <1>1, <1>4, SimStates, SimRuns DEF SimulateShort
  <1>5. CASE SimulateFails
    BY <1>1, <1>5, FailsKeeps DEF SimulateFails, WroteRun, WroteSim
  <1>6. CASE PauseRun
    <2>1. WroteSim("sim") /\ WroteRun("sim") /\ UNCHANGED build
      BY <1>1, <1>6, SimStates, SimWrites DEF PauseRun, WroteRun
    <2> QED
      BY <1>1, <1>6, <2>1, JobCloses DEF PauseRun
  <1> QED
    BY <1>2, <1>3, <1>4, <1>5, <1>6

LEMMA CheckKeeps ==
    ASSUME LaneInv, NEW l \in Lanes, Check(l)
    PROVE  LaneInv'
  <1> PICK j : j = Job(l)
    OBVIOUS
  <1>1. /\ lane[l] \in LaneState /\ lane \in [Lanes -> LaneState] /\ lane[l].pc = "check"
        /\ lane[l].n \in Nat \ {0} /\ lane[l].n <= Len(Order(l))
        /\ j \in Jobs /\ LaneOf(j) = l
        /\ rows \in [Jobs -> Row] /\ rows[j] \in Row /\ Filed(j) /\ InHand(l)
    BY Holding DEF Check
  <1>2. UNCHANGED <<build, runs, sims>>
    BY DEF Check
  <1>3. CASE Fails(l)
    BY <1>1, <1>2, <1>3, FailsKeeps DEF WroteRun, WroteSim
  <1>4. CASE Accepted(l) /\ To(l, "report")
             /\ rows' = [rows EXCEPT ![j].state = "complete", ![j].analysed = j \in Analysed]
    <2>0. (j \in Analysed) \in BOOLEAN
      OBVIOUS
    <2> PICK due \in BOOLEAN : due = (j \in Analysed)
      BY <2>0, Zenon
    <2> DEFINE q == [rows[j] EXCEPT !.state = "complete"]
               r == [q EXCEPT !.analysed = due]
    <2>1. rows' = [rows EXCEPT ![j] = r]
      BY <1>1, <1>4
    <2>2. /\ q \in Row /\ q.state = "complete" /\ q.tool = rows[j].tool /\ q.dir = rows[j].dir
          /\ q.snap = rows[j].snap
      BY <1>1 DEF Row
    <2> HIDE DEF q
    <2>3. /\ r \in Row /\ r.state = "complete" /\ r.tool = rows[j].tool /\ r.dir = rows[j].dir
          /\ r.snap = rows[j].snap /\ r.analysed = due
      BY <2>2 DEF Row
    <2> HIDE DEF r
    <2>4. /\ rows' \in [Jobs -> Row] /\ rows'[j] = r /\ \A i \in Jobs \ {j} : rows'[i] = rows[i]
      BY <1>1, <2>1, <2>3
    <2>5. /\ lane' \in [Lanes -> LaneState] /\ \A m \in Lanes \ {l} : lane'[m] = lane[m]
          /\ lane'[l].pc = "report" /\ lane'[l].n = lane[l].n
      BY <1>1, <1>4, Labels
    <2>6. LaneTypes'
      BY <1>2, <2>4, <2>5 DEF LaneInv, LaneTypes
    <2>7. (Placed(l) /\ InHand(l))'
      BY <1>1, <2>5 DEF Placed, InHand, Order
    <2>8. rows[j].dir = lane[l].dir /\ rows[j].tool = lane[l].fp
      BY <1>1 DEF InHand
    <2>9. CASE l = "sim"
      <3>1. sims[j][rows[j].dir].roi /\ rows[j].dir \in DOMAIN sims[j]
        BY <1>1, <1>4, <2>8, <2>9 DEF Accepted, Here, InHand
      <3>2. Filed(j)'
        BY <1>1, <1>2, <2>3, <2>4, <2>9, <3>1 DEF Filed, LaneOf
      <3> QED
        BY <1>1, <1>2, <2>4, <2>5, <2>6, <2>7, <3>2, OnlyTheJob
    <2>10. CASE l = "pin"
      <3>1. /\ runs[j][rows[j].dir].manifest = "complete"
            /\ runs[j][rows[j].dir].tool = rows[j].tool
            /\ j \in Analysed => ~runs[j][rows[j].dir].gaps
            /\ rows[j].dir \in DOMAIN runs[j]
        BY <1>1, <1>4, <2>8, <2>10 DEF Accepted, Compatible, Skips, Directory, InHand
      <3>2. Filed(j)'
        BY <1>1, <1>2, <2>3, <2>4, <2>10, <3>1 DEF Filed, LaneOf
      <3> QED
        BY <1>1, <1>2, <2>4, <2>5, <2>6, <2>7, <3>2, OnlyTheJob
    <2> QED
      BY <2>9, <2>10 DEF Lanes
  <1> QED
    BY <1>3, <1>4 DEF Check

LEMMA InterruptKeeps ==
    ASSUME LaneInv, NEW l \in Lanes, Interrupt(l)
    PROVE  LaneInv'
  <1>1. lane[l].pc \notin {"off", "pick"} /\ UNCHANGED <<build, runs>>
    BY DEF Interrupt, InTry
  <1>2. CASE l = "sim" /\ lane[l].pc = "child"
             /\ \E image \in {Here.image, TRUE} :
                  sims' = [sims EXCEPT ![Job(l)][lane[l].dir].image = image]
    <2>1. PICK image \in {Here.image, TRUE} :
            sims' = [sims EXCEPT ![Job(l)][lane[l].dir].image = image]
      BY <1>2
    <2>2. Here \in Sim /\ lane["sim"].dir \in DOMAIN sims[Job("sim")]
      BY <1>2, SimStates, Holding DEF InHand
    <2> DEFINE r == [Here EXCEPT !.image = image]
    <2>3. r \in Sim
      BY <2>2 DEF Sim
    <2>4. sims' = [sims EXCEPT ![Job("sim")][lane["sim"].dir] = r]
      BY <1>2, <2>1 DEF Here
    <2> HIDE DEF r
    <2>5. WroteSim(l) /\ WroteRun(l)
      BY <1>1, <1>2, <2>2, <2>3, <2>4 DEF WroteSim, WroteRun
    <2> QED
      BY <1>1, <2>5, JobCloses DEF Interrupt
  <1>3. CASE UNCHANGED sims
    BY <1>1, <1>3, JobCloses DEF Interrupt, WroteRun, WroteSim
  <1> QED
    BY <1>2, <1>3 DEF Interrupt

LEMMA LaneStepKeeps ==
    ASSUME LaneInv, Next
    PROVE  LaneInv'
  <1>1. ASSUME NEW l \in Lanes, NEW safe \in BOOLEAN, Start(l, safe)
        PROVE  LaneInv'
    BY <1>1, StartKeeps
  <1>2. ASSUME NEW l \in Lanes, DiskFull(l)
        PROVE  LaneInv'
    BY <1>2, FailsKeeps DEF DiskFull, WroteRun, WroteSim
  <1>3. ASSUME NEW l \in Lanes, Finish(l) \/ Kill(l)
        PROVE  LaneInv'
    BY <1>3, LaneEnds DEF Finish, Kill
  <1>4. ASSUME NEW l \in Lanes, Rebuild(l)
        PROVE  LaneInv'
    <2>1. UNCHANGED <<rows, runs, sims, lane>> /\ build' = [build EXCEPT ![l] = @ + 1]
      BY <1>4 DEF Rebuild
    <2>2. LaneTypes'
      BY <2>1 DEF LaneInv, LaneTypes
    <2> QED
      BY <2>1, <2>2 DEF LaneInv, Placed, InHand, Filed, Job, Directory
  <1>5. ASSUME NEW l \in Lanes, Skip(l) \/ Pick(l) \/ Publish(l) \/ Prepare(l) \/ Check(l)
        PROVE  LaneInv'
    BY <1>5, SkipKeeps, PickKeeps, PublishKeeps, PrepareKeeps, CheckKeeps
  <1>6. ASSUME LaunchPin \/ LaunchSim \/ CollectFails
        PROVE  LaneInv'
    BY <1>6, LaunchPinKeeps, LaunchSimKeeps, CollectFailsKeeps
  <1>7. ASSUME NEW gaps \in BOOLEAN, Collect(gaps)
        PROVE  LaneInv'
    BY <1>7, CollectKeeps
  <1>8. "pin" \in Lanes /\ "sim" \in Lanes
    BY DEF Lanes
  <1> QED
    BY <1>1, <1>2, <1>3, <1>4, <1>5, <1>6, <1>7, <1>8, SimulatorKeeps, InterruptKeeps
       DEF Next, PinSteps, SimSteps, LaneStep

--------------------------------------------------------------------------------
(* The chain.                                                                 *)

ChainState == [pc : {"off", "await", "pick", "launch", "child", "check", "publish"},
               n : Nat, fp : Nat]
ChainRow == [state : {"queued", "running", "complete", "failed", "interrupted"},
             tool : Nat, dir : Nat]

ChainTypes ==
  /\ build["pin"] \in Nat
  /\ fstatus \in [F!Campaigns -> {"absent", "running", "waiting", "complete", "held", "failed",
                                  "interrupted"}]
  /\ frows \in [F!Jobs -> ChainRow]
  /\ fruns \in [F!Jobs \cup F!JobsOf("trials") -> Seq(Run)]
  /\ proc \in [F!Services -> ChainState]
  /\ held \in BOOLEAN

TrialsComplete == \A j \in F!JobsOf("trials") :
  1 \in DOMAIN fruns[j] /\ fruns[j][1].manifest = "complete"

ChainPlaced(c) ==
  /\ proc[c].pc \notin {"off", "await"} => proc[c].n \in Nat \ {0}
  /\ proc[c].pc \notin {"off", "await", "pick"} => proc[c].n <= Len(F!Order(c))

\* What the process of a campaign knows of the job in its hand.
ChainInHand(c) ==
  LET j == F!Job(c)
      d == frows[j].dir
  IN  /\ proc[c].pc # "off" => fstatus[c] # "complete"
      /\ proc[c].pc \in {"launch", "child", "check"} => frows[j].state = "running"
      /\ proc[c].pc \in {"launch", "child", "check", "publish"} =>
            /\ frows[j].tool = proc[c].fp
            /\ c = "stage2" /\ held => j \notin Threaded
      /\ proc[c].pc \in {"launch", "child", "check"} /\ j \notin Preparations =>
            /\ proc[c].pc = "launch" => d \in 1 .. (Len(fruns[j]) + 1)
            /\ proc[c].pc \in {"child", "check"} => d \in DOMAIN fruns[j]
            /\ proc[c].pc = "child" => fruns[j][d].manifest = "running"

\* The first campaign has completed the jobs before the one in hand, with the
\* tool it started with; the second has found the repetition controls complete.
FidelityBehind ==
  proc["fidelity"].pc # "off" =>
    /\ \A i \in 1 .. (proc["fidelity"].n - 1) :
          i <= Len(FidelityJobs) => frows[FidelityJobs[i]].state = "complete"
                                    /\ frows[FidelityJobs[i]].tool = proc["fidelity"].fp
    /\ proc["fidelity"].pc = "publish" => frows[F!Job("fidelity")].state = "complete"

TrialInHand ==
  proc["trials"].pc = "child" =>
    LET j == F!Job("trials")
    IN  1 \in DOMAIN fruns[j] /\ fruns[j][1].manifest = "running"

TrialsBehind ==
  \/ proc["stage2"].pc \notin {"off", "await"}
  \/ \E j \in F!JobsOf("stage2") : frows[j].state # "queued"
  => TrialsComplete

ChainFiled(j) ==
  frows[j].state = "complete" /\ j \notin Preparations =>
    frows[j].dir \in DOMAIN fruns[j] /\ fruns[j][frows[j].dir].manifest = "complete"

Concluded == \A c \in F!Campaigns : fstatus[c] = "complete" =>
  \A j \in F!JobsOf(c) : frows[j].state = "complete"

ChainInv ==
  /\ ChainTypes
  /\ \A c \in F!Campaigns : ChainPlaced(c) /\ ChainInHand(c)
  /\ ChainPlaced("trials")
  /\ FidelityBehind /\ TrialInHand /\ TrialsBehind /\ Concluded
  /\ \A j \in F!Jobs : ChainFiled(j)

\* What resume_sim found before it became the sim lane.
Measured ==
  "resume" \in services /\ lane["sim"].pc # "off" =>
    \A j \in F!JobsOf("fidelity") \ Preparations :
       \E d \in DOMAIN fruns[j] : fruns[j][d].manifest = "complete"

--------------------------------------------------------------------------------
(* What the steps of the chain have in common.                                *)

\* The chain keeps its run directories as the lanes do.
LEMMA SameRecords ==
    /\ \A s, d, r : F!Stored(s, d, r) = Stored(s, d, r)
    /\ \A s, d : F!RunAt(s, d) = RunAt(s, d)
    /\ \A t : F!Begun(t) = Begun(t)
    /\ \A r, end, gaps : F!Ended(r, end, gaps) = Ended(r, end, gaps)
    /\ F!Ends = Ends
    /\ \A r, t : F!Skips(r, t) <=> Skips(r, t)
    /\ \A r, t : F!Refuses(r, t) <=> Refuses(r, t)
  BY DEF F!Stored, Stored, F!RunAt, RunAt, F!NoRun, NoRun, F!Begun, Begun, F!Ended, Ended,
         F!Ends, Ends, F!Skips, Skips, F!Refuses, Refuses

LEMMA ChainOrders ==
    /\ \A c \in {"fidelity", "stage2", "trials"} : F!Order(c) \in Seq(F!JobsOf(c))
    /\ F!Order("fidelity") = FidelityJobs
    /\ F!Campaigns = {"fidelity", "stage2"}
    /\ F!Services = {"fidelity", "stage2", "trials", "resume"}
    /\ F!Jobs = F!JobsOf("fidelity") \cup F!JobsOf("stage2")
  BY ChainAssumption DEF F!Order, F!Campaigns, F!Services, F!Jobs

\* A service that has a job in hand has one of its own.
LEMMA ChainJob ==
    ASSUME NEW c \in {"fidelity", "stage2", "trials"},
           proc[c].n \in Nat \ {0}, proc[c].n <= Len(F!Order(c))
    PROVE  /\ F!Job(c) \in F!JobsOf(c)
           /\ c \in F!Campaigns => F!Job(c) \in F!Jobs /\ F!Job(c) \notin F!JobsOf("trials")
           /\ c = "trials" => F!Job(c) \notin F!Jobs
           /\ c = "fidelity" => F!Job(c) \notin F!JobsOf("stage2")
           /\ c = "stage2" => F!Job(c) \notin F!JobsOf("fidelity")
  <1>1. F!Order(c) \in Seq(F!JobsOf(c))
    BY ChainAssumption
  <1>2. DOMAIN F!Order(c) = 1 .. Len(F!Order(c))
    BY <1>1
  <1>3. F!Job(c) \in F!JobsOf(c)
    BY <1>2 DEF F!Job, F!JobsOf
  <1> QED
    BY <1>3, ChainOrders, ChainAssumption

\* The job of the first campaign at a place, and the one in its hand.
LEMMA FidelityJob ==
    /\ F!Job("fidelity") = FidelityJobs[proc["fidelity"].n]
    /\ FidelityJobs \in Seq(F!JobsOf("fidelity"))
    /\ \A i \in 1 .. Len(FidelityJobs) : FidelityJobs[i] \in F!JobsOf("fidelity")
    /\ \A j \in F!JobsOf("fidelity") : \E i \in 1 .. Len(FidelityJobs) : j = FidelityJobs[i]
  BY ChainOrders DEF F!Job, F!JobsOf

\* A step of one service that saves no row and starts no run.
LEMMA ChainQuiet ==
    ASSUME ChainInv, ChainTypes', UNCHANGED <<frows, fruns>>,
           NEW s \in F!Services,
           \A t \in F!Services \ {s} : proc'[t] = proc[t],
           \A c \in F!Campaigns \ {s} : fstatus'[c] = fstatus[c],
           s # "stage2" => UNCHANGED held,
           s \in F!Campaigns => (ChainPlaced(s) /\ ChainInHand(s))',
           s = "trials" => (ChainPlaced("trials") /\ TrialInHand)',
           s = "fidelity" => FidelityBehind',
           s = "stage2" => TrialsBehind',
           Concluded'
    PROVE  ChainInv'
  <1>1. ASSUME NEW c \in F!Campaigns, c # s
        PROVE  (ChainPlaced(c) /\ ChainInHand(c))'
    <2>1. /\ ChainPlaced(c) /\ ChainInHand(c) /\ proc'[c] = proc[c] /\ fstatus'[c] = fstatus[c]
          /\ c = "stage2" => UNCHANGED held
      BY <1>1, ChainOrders DEF ChainInv
    <2>2. F!Job(c)' = F!Job(c)
      BY <2>1, ChainOrders DEF F!Job, F!Order
    <2>3. ChainPlaced(c)'
      BY <2>1 DEF ChainPlaced, F!Order
    <2>4. ChainInHand(c)'
      BY <2>1, <2>2 DEF ChainInHand
    <2> QED
      BY <2>3, <2>4
  <1>2. s # "trials" => (ChainPlaced("trials") /\ TrialInHand)'
    <2> SUFFICES ASSUME s # "trials"
                 PROVE  (ChainPlaced("trials") /\ TrialInHand)'
      OBVIOUS
    <2>1. proc'["trials"] = proc["trials"] /\ ChainPlaced("trials") /\ TrialInHand
      BY ChainOrders DEF ChainInv
    <2>2. F!Job("trials")' = F!Job("trials")
      BY <2>1 DEF F!Job, F!Order
    <2>3. ChainPlaced("trials")'
      BY <2>1 DEF ChainPlaced, F!Order
    <2>4. TrialInHand'
      BY <2>1, <2>2 DEF TrialInHand
    <2> QED
      BY <2>3, <2>4
  <1>3. s # "fidelity" => FidelityBehind'
    BY ChainOrders DEF ChainInv, FidelityBehind, F!Job, F!Order
  <1>4. s # "stage2" => TrialsBehind'
    BY ChainOrders DEF ChainInv, TrialsBehind, TrialsComplete, F!JobsOf, F!Order
  <1>5. \A j \in F!Jobs : ChainFiled(j)'
    BY DEF ChainInv, ChainFiled
  <1> QED
    BY <1>1, <1>2, <1>3, <1>4, <1>5 DEF ChainInv, F!Campaigns, F!Jobs

\* The jobs before the one in the first campaign's hand are others.
LEMMA BehindIsOther ==
    ASSUME FidelityBehind, proc["fidelity"].pc # "off",
           proc["fidelity"].n \in Nat \ {0}, proc["fidelity"].n <= Len(FidelityJobs),
           NEW j, ~(frows[j].state = "complete" /\ frows[j].tool = proc["fidelity"].fp)
    PROVE  \A i \in 1 .. (proc["fidelity"].n - 1) : FidelityJobs[i] # j
  <1> DEFINE n == proc["fidelity"].n
  <1>1. Len(FidelityJobs) \in Nat
    BY FidelityJob
  <1>2. \A i \in 1 .. (n - 1) : i <= Len(FidelityJobs) =>
           frows[FidelityJobs[i]].state = "complete"
             /\ frows[FidelityJobs[i]].tool = proc["fidelity"].fp
    BY DEF FidelityBehind
  <1>3. \A i \in 1 .. (n - 1) : i <= Len(FidelityJobs)
    BY <1>1
  <1> QED
    BY <1>2, <1>3

\* What a process may count on that has a job in its hand.
LEMMA ChainHolding ==
    ASSUME ChainInv, NEW c \in F!Campaigns, proc[c].pc \notin {"off", "await"},
           proc[c].pc = "pick" => proc[c].n <= Len(F!Order(c))
    PROVE  /\ proc[c] \in ChainState /\ proc \in [F!Services -> ChainState]
           /\ proc[c].n \in Nat \ {0} /\ proc[c].n <= Len(F!Order(c))
           /\ F!Job(c) \in F!JobsOf(c) /\ F!Job(c) \in F!Jobs /\ F!Job(c) \notin F!JobsOf("trials")
           /\ c = "fidelity" => F!Job(c) \notin F!JobsOf("stage2")
           /\ c = "stage2" => F!Job(c) \notin F!JobsOf("fidelity")
           /\ frows \in [F!Jobs -> ChainRow] /\ frows[F!Job(c)] \in ChainRow
           /\ fruns \in [F!Jobs \cup F!JobsOf("trials") -> Seq(Run)]
           /\ fruns[F!Job(c)] \in Seq(Run)
           /\ fstatus[c] # "complete"
           /\ ChainFiled(F!Job(c)) /\ ChainInHand(c)
  <1>1. ChainTypes /\ ChainPlaced(c) /\ ChainInHand(c)
    BY DEF ChainInv
  <1>2. proc[c].n \in Nat \ {0} /\ proc[c].n <= Len(F!Order(c))
    BY <1>1 DEF ChainPlaced
  <1>3. /\ F!Job(c) \in F!JobsOf(c) /\ F!Job(c) \in F!Jobs /\ F!Job(c) \notin F!JobsOf("trials")
        /\ c = "fidelity" => F!Job(c) \notin F!JobsOf("stage2")
        /\ c = "stage2" => F!Job(c) \notin F!JobsOf("fidelity")
    BY <1>2, ChainJob, ChainOrders
  <1>4. c \in F!Services
    BY ChainOrders
  <1>5. fstatus[c] # "complete"
    BY <1>1 DEF ChainInHand
  <1> QED
    BY <1>1, <1>2, <1>3, <1>4, <1>5 DEF ChainInv, ChainTypes

\* A step of one campaign on the job in its hand.
LEMMA ChainLocal ==
    ASSUME ChainInv, ChainTypes', UNCHANGED held,
           NEW c \in F!Campaigns, proc[c].pc \notin {"off", "await"},
           proc[c].pc = "pick" => proc[c].n <= Len(F!Order(c)),
           \A t \in F!Services \ {c} : proc'[t] = proc[t],
           \A d \in F!Campaigns \ {c} : fstatus'[d] = fstatus[d],
           fstatus'[c] # "complete",
           NEW j, j = F!Job(c),
           \A i \in F!Jobs \ {j} : frows'[i] = frows[i],
           \A i \in (F!Jobs \cup F!JobsOf("trials")) \ {j} : fruns'[i] = fruns[i],
           (ChainPlaced(c) /\ ChainInHand(c))',
           c = "fidelity" => FidelityBehind',
           ChainFiled(j)'
    PROVE  ChainInv'
  <1>1. /\ j \in F!JobsOf(c) /\ j \in F!Jobs /\ j \notin F!JobsOf("trials")
        /\ c = "fidelity" => j \notin F!JobsOf("stage2")
        /\ c = "stage2" => j \notin F!JobsOf("fidelity")
    BY ChainHolding
  <1>2. ASSUME NEW d \in F!Campaigns, d # c
        PROVE  (ChainPlaced(d) /\ ChainInHand(d))'
    <2>1. ChainPlaced(d) /\ ChainInHand(d) /\ proc'[d] = proc[d] /\ fstatus'[d] = fstatus[d]
      BY <1>2, ChainOrders DEF ChainInv
    <2>2. F!Job(d)' = F!Job(d)
      BY <2>1, ChainOrders DEF F!Job, F!Order
    <2>3. ChainPlaced(d)'
      BY <2>1 DEF ChainPlaced, F!Order
    <2>4. CASE proc[d].pc \in {"off", "await", "pick"}
      BY <2>1, <2>3, <2>4 DEF ChainInHand
    <2>5. CASE proc[d].pc \notin {"off", "await", "pick"}
      <3>1. F!Job(d) \in F!Jobs /\ F!Job(d) # j
        BY <1>1, <1>2, <2>5, ChainHolding, ChainOrders
      <3>2. frows'[F!Job(d)] = frows[F!Job(d)] /\ fruns'[F!Job(d)] = fruns[F!Job(d)]
        BY <3>1
      <3>3. ChainInHand(d)'
        BY <2>1, <2>2, <3>2 DEF ChainInHand
      <3> QED
        BY <2>3, <3>3
    <2> QED
      BY <2>4, <2>5
  <1>3. (ChainPlaced("trials") /\ TrialInHand)'
    <2>1. proc'["trials"] = proc["trials"] /\ ChainPlaced("trials") /\ TrialInHand
      BY ChainOrders DEF ChainInv
    <2>2. F!Job("trials")' = F!Job("trials")
      BY <2>1 DEF F!Job, F!Order
    <2>3. ChainPlaced("trials")'
      BY <2>1 DEF ChainPlaced, F!Order
    <2>4. CASE proc["trials"].pc = "child"
      <3>1. F!Job("trials") \in F!JobsOf("trials")
        BY <2>1, <2>4, ChainJob DEF ChainPlaced
      <3>2. fruns'[F!Job("trials")] = fruns[F!Job("trials")]
        BY <1>1, <3>1
      <3> QED
        BY <2>1, <2>2, <2>3, <3>2 DEF TrialInHand
    <2>5. CASE proc["trials"].pc # "child"
      BY <2>1, <2>3, <2>5 DEF TrialInHand
    <2> QED
      BY <2>4, <2>5
  <1>4. c = "stage2" => FidelityBehind'
    <2> SUFFICES ASSUME c = "stage2"
                 PROVE  FidelityBehind'
      OBVIOUS
    <2>1. proc'["fidelity"] = proc["fidelity"] /\ FidelityBehind /\ ChainPlaced("fidelity")
      BY ChainOrders DEF ChainInv
    <2>2. \A i \in 1 .. Len(FidelityJobs) : frows'[FidelityJobs[i]] = frows[FidelityJobs[i]]
      BY <1>1, FidelityJob, ChainOrders
    <2>3. F!Job("fidelity")' = F!Job("fidelity")
      BY <2>1 DEF F!Job, F!Order
    <2>4. proc["fidelity"].pc = "publish" =>
             frows'[F!Job("fidelity")] = frows[F!Job("fidelity")]
      BY <1>1, <2>1, ChainJob, ChainOrders DEF ChainPlaced
    <2>5. proc["fidelity"].pc \notin {"off", "await"} => proc["fidelity"].n \in Nat
      BY <2>1 DEF ChainPlaced
    <2>6. Len(FidelityJobs) \in Nat /\ proc["fidelity"].n \in Nat
      BY FidelityJob, ChainOrders DEF ChainInv, ChainTypes, ChainState
    <2> QED
      BY <2>1, <2>2, <2>3, <2>4, <2>6 DEF FidelityBehind
  <1>5. TrialsBehind'
    <2>1. TrialsComplete => TrialsComplete'
      BY <1>1 DEF TrialsComplete, F!JobsOf, F!Order
    <2>2. c = "stage2" => TrialsComplete
      BY DEF ChainInv, TrialsBehind
    <2>3. c = "fidelity" => /\ proc'["stage2"] = proc["stage2"]
                            /\ \A i \in F!JobsOf("stage2") : frows'[i] = frows[i]
      BY <1>1, ChainOrders
    <2> QED
      BY <2>1, <2>2, <2>3, ChainOrders DEF ChainInv, TrialsBehind, F!JobsOf, F!Order
  <1>6. Concluded'
    <2>1. ASSUME NEW d \in F!Campaigns, fstatus'[d] = "complete", NEW i \in F!JobsOf(d)
          PROVE  frows'[i].state = "complete"
      BY <1>1, <2>1, ChainOrders DEF ChainInv, Concluded
    <2> QED
      BY <2>1 DEF Concluded, F!JobsOf, F!Order
  <1>7. ASSUME NEW i \in F!Jobs, i # j
        PROVE  ChainFiled(i)'
    BY <1>7 DEF ChainInv, ChainFiled
  <1>8. c = "fidelity" \/ c = "stage2"
    BY ChainOrders
  <1> QED
    BY <1>2, <1>3, <1>4, <1>5, <1>6, <1>7, <1>8 DEF ChainInv, F!Campaigns, F!Jobs

--------------------------------------------------------------------------------
(* Each step of the chain.                                                    *)

Statuses == {"absent", "running", "waiting", "complete", "held", "failed", "interrupted"}

LEMMA ChainTyped ==
    ASSUME ChainInv
    PROVE  /\ proc \in [F!Services -> ChainState] /\ fstatus \in [F!Campaigns -> Statuses]
           /\ frows \in [F!Jobs -> ChainRow]
           /\ fruns \in [F!Jobs \cup F!JobsOf("trials") -> Seq(Run)]
           /\ held \in BOOLEAN /\ build["pin"] \in Nat
           /\ F!Off \in ChainState /\ F!Off.pc = "off"
  BY DEF ChainInv, ChainTypes, Statuses, F!Off, ChainState

\* The status a campaign saves, and the one it leaves to the other.
LEMMA SavesStatus ==
    ASSUME fstatus \in [F!Campaigns -> Statuses], NEW c \in F!Campaigns, NEW how \in Statuses,
           fstatus' = [fstatus EXCEPT ![c] = how]
    PROVE  /\ fstatus' \in [F!Campaigns -> Statuses] /\ fstatus'[c] = how
           /\ \A d \in F!Campaigns \ {c} : fstatus'[d] = fstatus[d]
  OBVIOUS

\* A process gets to another place, or ends.
LEMMA MovesTo ==
    ASSUME proc \in [F!Services -> ChainState], NEW s \in F!Services, NEW new \in ChainState,
           proc' = [proc EXCEPT ![s] = new]
    PROVE  /\ proc' \in [F!Services -> ChainState] /\ proc'[s] = new
           /\ \A t \in F!Services \ {s} : proc'[t] = proc[t]
  OBVIOUS

LEMMA GoesTo ==
    ASSUME proc \in [F!Services -> ChainState], NEW s \in F!Services,
           NEW p \in {"await", "pick", "launch", "child", "check", "publish"}, F!To(s, p)
    PROVE  /\ proc' \in [F!Services -> ChainState]
           /\ \A t \in F!Services \ {s} : proc'[t] = proc[t]
           /\ proc'[s].pc = p /\ proc'[s].n = proc[s].n /\ proc'[s].fp = proc[s].fp
  <1> DEFINE r == [proc[s] EXCEPT !.pc = p]
  <1>1. proc' = [proc EXCEPT ![s] = r]
    BY DEF F!To
  <1>2. r \in ChainState /\ r.pc = p /\ r.n = proc[s].n /\ r.fp = proc[s].fp
    BY DEF ChainState
  <1> HIDE DEF r
  <1> QED
    BY <1>1, <1>2, MovesTo

LEMMA GoesOn ==
    ASSUME proc \in [F!Services -> ChainState], NEW s \in F!Services, F!Passes(s)
    PROVE  /\ proc' \in [F!Services -> ChainState]
           /\ \A t \in F!Services \ {s} : proc'[t] = proc[t]
           /\ proc'[s].pc = "pick" /\ proc'[s].n = proc[s].n + 1 /\ proc'[s].fp = proc[s].fp
  <1> DEFINE q == [proc[s] EXCEPT !.pc = "pick"]
             r == [q EXCEPT !.n = @ + 1]
  <1>1. proc' = [proc EXCEPT ![s] = r]
    BY DEF F!Passes
  <1>2. q \in ChainState /\ q.pc = "pick" /\ q.n = proc[s].n /\ q.fp = proc[s].fp
    BY DEF ChainState
  <1> HIDE DEF q
  <1>3. r \in ChainState /\ r.pc = "pick" /\ r.n = proc[s].n + 1 /\ r.fp = proc[s].fp
    BY <1>2 DEF ChainState
  <1> HIDE DEF r
  <1> QED
    BY <1>1, <1>3, MovesTo

\* A process that ends leaves what it has saved.
LEMMA ServiceEnds ==
    ASSUME ChainInv, NEW s \in F!Services, F!Leaves(s), UNCHANGED <<build, frows, fruns, held>>,
           fstatus' \in [F!Campaigns -> Statuses],
           \A d \in F!Campaigns \ {s} : fstatus'[d] = fstatus[d],
           Concluded'
    PROVE  ChainInv'
  <1>1. /\ proc' \in [F!Services -> ChainState] /\ proc'[s].pc = "off"
        /\ \A t \in F!Services \ {s} : proc'[t] = proc[t]
    BY ChainTyped, MovesTo DEF F!Leaves
  <1>2. ChainTypes'
    BY <1>1, ChainTyped DEF ChainTypes, Statuses
  <1>3. (ChainPlaced(s) /\ ChainInHand(s))'
    BY <1>1 DEF ChainPlaced, ChainInHand
  <1>4. s = "trials" => TrialInHand'
    BY <1>1 DEF TrialInHand
  <1>5. s = "fidelity" => FidelityBehind'
    BY <1>1 DEF FidelityBehind
  <1>6. s = "stage2" => TrialsBehind'
    BY <1>1 DEF ChainInv, TrialsBehind, TrialsComplete, F!JobsOf, F!Order
  <1> QED
    BY <1>1, <1>2, <1>3, <1>4, <1>5, <1>6, ChainQuiet

LEMMA StillConcluded ==
    ASSUME ChainInv, UNCHANGED frows,
           \A c \in F!Campaigns : fstatus'[c] = "complete" => fstatus[c] = "complete"
    PROVE  Concluded'
  BY DEF ChainInv, Concluded, F!JobsOf, F!Order

\* The status of a campaign that starts or waits, which is not complete.
LEMMA NotComplete ==
    ASSUME ChainInv, UNCHANGED frows, NEW c \in F!Campaigns, NEW how \in Statuses, how # "complete",
           fstatus' = [fstatus EXCEPT ![c] = how]
    PROVE  /\ fstatus' \in [F!Campaigns -> Statuses] /\ fstatus'[c] = how
           /\ \A d \in F!Campaigns \ {c} : fstatus'[d] = fstatus[d]
           /\ Concluded'
  BY ChainTyped, SavesStatus, StillConcluded

LEMMA StartFidelityKeeps ==
    ASSUME ChainInv, UNCHANGED build, F!StartFidelity
    PROVE  ChainInv'
  <1> DEFINE s == [pc |-> "pick", n |-> 1, fp |-> build["pin"]]
  <1>1. /\ "fidelity" \in F!Services /\ "fidelity" \in F!Campaigns
        /\ fstatus' = [fstatus EXCEPT !["fidelity"] = "running"]
        /\ proc' = [proc EXCEPT !["fidelity"] = s]
        /\ UNCHANGED <<frows, held, fruns>>
    BY ChainOrders DEF F!StartFidelity
  <1>2. s \in ChainState /\ s.pc = "pick" /\ s.n = 1
    BY ChainTyped DEF ChainState
  <1> HIDE DEF s
  <1>3. /\ proc' \in [F!Services -> ChainState] /\ proc'["fidelity"] = s
        /\ \A t \in F!Services \ {"fidelity"} : proc'[t] = proc[t]
    BY <1>1, <1>2, ChainTyped, MovesTo
  <1>4. /\ fstatus' \in [F!Campaigns -> Statuses] /\ fstatus'["fidelity"] = "running"
        /\ \A d \in F!Campaigns \ {"fidelity"} : fstatus'[d] = fstatus[d]
        /\ Concluded'
    BY <1>1, NotComplete DEF Statuses
  <1>5. ChainTypes'
    BY <1>1, <1>3, <1>4, ChainTyped DEF ChainTypes, Statuses
  <1>6. (ChainPlaced("fidelity") /\ ChainInHand("fidelity"))'
    BY <1>2, <1>3, <1>4 DEF ChainPlaced, ChainInHand
  <1>7. FidelityBehind'
    BY <1>2, <1>3 DEF FidelityBehind
  <1> QED
    BY <1>1, <1>3, <1>4, <1>5, <1>6, <1>7, ChainQuiet

LEMMA StartStage2Keeps ==
    ASSUME ChainInv, UNCHANGED build, NEW hold \in BOOLEAN, F!StartStage2(hold)
    PROVE  ChainInv'
  <1>1. /\ "stage2" \in F!Services /\ "stage2" \in F!Campaigns
        /\ fstatus' = [fstatus EXCEPT !["stage2"] = "waiting"]
        /\ F!To("stage2", "await") /\ held' \in BOOLEAN
        /\ UNCHANGED <<frows, fruns>>
    BY ChainOrders, ChainTyped DEF F!StartStage2, F!Hold
  <1>2. /\ proc' \in [F!Services -> ChainState] /\ proc'["stage2"].pc = "await"
        /\ \A t \in F!Services \ {"stage2"} : proc'[t] = proc[t]
    BY <1>1, ChainTyped, GoesTo
  <1>3. /\ fstatus' \in [F!Campaigns -> Statuses] /\ fstatus'["stage2"] = "waiting"
        /\ \A d \in F!Campaigns \ {"stage2"} : fstatus'[d] = fstatus[d]
        /\ Concluded'
    BY <1>1, NotComplete DEF Statuses
  <1>4. ChainTypes'
    BY <1>1, <1>2, <1>3, ChainTyped DEF ChainTypes, Statuses
  <1>5. (ChainPlaced("stage2") /\ ChainInHand("stage2"))'
    BY <1>2, <1>3 DEF ChainPlaced, ChainInHand
  <1>6. TrialsBehind'
    BY <1>1, <1>2 DEF ChainInv, TrialsBehind, TrialsComplete, F!JobsOf, F!Order
  <1> QED
    BY <1>1, <1>2, <1>3, <1>4, <1>5, <1>6, ChainQuiet

LEMMA AwaitTrialsKeeps ==
    ASSUME ChainInv, UNCHANGED build, F!AwaitTrials
    PROVE  ChainInv'
  <1>1. /\ "stage2" \in F!Services /\ "stage2" \in F!Campaigns
        /\ UNCHANGED <<frows, fruns, held>>
    BY ChainOrders DEF F!AwaitTrials
  <1>2. CASE F!Leaves("stage2") /\ UNCHANGED fstatus
    BY <1>1, <1>2, ServiceEnds, StillConcluded, ChainTyped
  <1>3. CASE /\ F!TrialStates = {"complete"}
             /\ fstatus' = [fstatus EXCEPT !["stage2"] = "running"]
             /\ proc' = [proc EXCEPT !["stage2"] = [F!Off EXCEPT !.pc = "pick", !.n = 1]]
    <2> DEFINE q == [F!Off EXCEPT !.pc = "pick"]
               s == [q EXCEPT !.n = 1]
    <2>1. proc' = [proc EXCEPT !["stage2"] = s]
      BY <1>3
    <2>2. q \in ChainState /\ q.pc = "pick"
      BY ChainTyped DEF ChainState
    <2> HIDE DEF q
    <2>3. s \in ChainState /\ s.pc = "pick" /\ s.n = 1
      BY <2>2 DEF ChainState
    <2> HIDE DEF s
    <2>4. /\ proc' \in [F!Services -> ChainState] /\ proc'["stage2"] = s
          /\ \A t \in F!Services \ {"stage2"} : proc'[t] = proc[t]
      BY <1>1, <2>1, <2>3, ChainTyped, MovesTo
    <2>5. /\ fstatus' \in [F!Campaigns -> Statuses] /\ fstatus'["stage2"] = "running"
          /\ \A d \in F!Campaigns \ {"stage2"} : fstatus'[d] = fstatus[d]
          /\ Concluded'
      BY <1>1, <1>3, NotComplete DEF Statuses
    <2>6. ChainTypes'
      BY <1>1, <2>4, <2>5, ChainTyped DEF ChainTypes, Statuses
    <2>7. (ChainPlaced("stage2") /\ ChainInHand("stage2"))'
      BY <2>3, <2>4, <2>5 DEF ChainPlaced, ChainInHand
    <2>8. \A j \in F!JobsOf("trials") : RunAt(fruns[j], 1).manifest = "complete"
      BY <1>3, SameRecords DEF F!TrialStates
    <2>9. TrialsComplete
      BY <2>8 DEF TrialsComplete, RunAt, NoRun
    <2>10. TrialsBehind'
      BY <1>1, <2>9 DEF TrialsBehind, TrialsComplete, F!JobsOf, F!Order
    <2> QED
      BY <1>1, <2>4, <2>5, <2>6, <2>7, <2>10, ChainQuiet
  <1> QED
    BY <1>2, <1>3 DEF F!AwaitTrials

\* Skip and Publish: what is passed over or has been published is complete, or
\* held in the second campaign.
LEMMA PassesKeeps ==
    ASSUME ChainInv, UNCHANGED <<build, fstatus, frows, held, fruns>>, NEW c \in F!Campaigns,
           proc[c].pc \in {"pick", "publish"}, proc[c].n <= Len(F!Order(c)), F!Passes(c),
           c = "fidelity" => /\ frows[F!Job(c)].state = "complete"
                             /\ frows[F!Job(c)].tool = proc[c].fp
    PROVE  ChainInv'
  <1>1. c \in F!Services /\ c \in {"fidelity", "stage2"}
    BY ChainOrders
  <1>2. /\ proc' \in [F!Services -> ChainState] /\ proc'[c].pc = "pick"
        /\ proc'[c].n = proc[c].n + 1 /\ proc'[c].fp = proc[c].fp
        /\ \A t \in F!Services \ {c} : proc'[t] = proc[t]
    BY <1>1, ChainTyped, GoesOn
  <1>3. /\ proc[c].n \in Nat \ {0} /\ fstatus[c] # "complete"
    BY ChainHolding
  <1>4. ChainTypes' /\ Concluded'
    BY <1>2, ChainTyped, StillConcluded DEF ChainTypes, Statuses
  <1>5. (ChainPlaced(c) /\ ChainInHand(c))'
    BY <1>2, <1>3 DEF ChainPlaced, ChainInHand
  <1>6. c = "fidelity" => FidelityBehind'
    <2> SUFFICES ASSUME c = "fidelity"
                 PROVE  FidelityBehind'
      OBVIOUS
    <2>1. FidelityBehind /\ F!Job(c) = FidelityJobs[proc[c].n]
      BY FidelityJob DEF ChainInv
    <2>2. \A i \in 1 .. proc[c].n : i <= Len(FidelityJobs) =>
             frows[FidelityJobs[i]].state = "complete" /\ frows[FidelityJobs[i]].tool = proc[c].fp
      BY <1>3, <2>1 DEF FidelityBehind
    <2> QED
      BY <1>2, <1>3, <2>2 DEF FidelityBehind
  <1>7. c = "stage2" => TrialsBehind'
    BY <1>2 DEF ChainInv, TrialsBehind, TrialsComplete, F!JobsOf, F!Order
  <1> QED
    BY <1>1, <1>2, <1>4, <1>5, <1>6, <1>7, ChainQuiet

LEMMA WaitForMemoryKeeps ==
    ASSUME ChainInv, UNCHANGED build, F!WaitForMemory
    PROVE  ChainInv'
  <1>1. /\ "stage2" \in F!Services /\ "stage2" \in F!Campaigns
        /\ fstatus' = [fstatus EXCEPT !["stage2"] = "waiting"]
        /\ UNCHANGED <<frows, fruns, held, proc>>
    BY ChainOrders DEF F!WaitForMemory
  <1>2. /\ fstatus' \in [F!Campaigns -> Statuses] /\ fstatus'["stage2"] = "waiting"
        /\ \A d \in F!Campaigns \ {"stage2"} : fstatus'[d] = fstatus[d]
        /\ Concluded'
    BY <1>1, NotComplete DEF Statuses
  <1>3. ChainTypes'
    BY <1>1, <1>2, ChainTyped DEF ChainTypes, Statuses
  <1>4. ChainPlaced("stage2") /\ ChainInHand("stage2")
    BY <1>1 DEF ChainInv
  <1>5. (ChainPlaced("stage2") /\ ChainInHand("stage2"))'
    BY <1>1, <1>2, <1>4 DEF ChainPlaced, ChainInHand, F!Job, F!Order
  <1>6. TrialsBehind'
    BY <1>1 DEF ChainInv, TrialsBehind, TrialsComplete, F!JobsOf, F!Order
  <1> QED
    BY <1>1, <1>2, <1>3, <1>5, <1>6, ChainQuiet

LEMMA TargetIsNext ==
    ASSUME ChainInv, NEW c \in F!Campaigns, F!Job(c) \in F!Jobs
    PROVE  F!Target(c) \in 1 .. (Len(fruns[F!Job(c)]) + 1)
  <1>1. fruns[F!Job(c)] \in Seq(Run)
    BY ChainTyped
  <1> QED
    BY <1>1 DEF F!Target

LEMMA PickKeepsChain ==
    ASSUME ChainInv, UNCHANGED build, NEW c \in F!Campaigns, F!Pick(c)
    PROVE  ChainInv'
  <1> PICK j : j = F!Job(c)
    OBVIOUS
  <1>1. /\ proc[c].pc = "pick" /\ proc[c].n <= Len(F!Order(c)) /\ ~F!Passed(c)
        /\ UNCHANGED <<held, fruns>>
    BY DEF F!Pick, F!At, F!More
  <1>2. /\ proc[c] \in ChainState /\ proc[c].n \in Nat \ {0} /\ j \in F!Jobs
        /\ c \in F!Services
    BY <1>1, ChainHolding, ChainOrders
  <1> DEFINE new == [state |-> "running", tool |-> proc[c].fp,
                     dir |-> IF j \in Preparations THEN 0 ELSE F!Target(c)]
  <1>3. F!Target(c) \in 1 .. (Len(fruns[j]) + 1) /\ fruns[j] \in Seq(Run)
    BY <1>2, TargetIsNext, ChainTyped
  <1>4. /\ new \in ChainRow /\ new.state = "running" /\ new.tool = proc[c].fp
        /\ j \notin Preparations => new.dir \in 1 .. (Len(fruns[j]) + 1)
    BY <1>2, <1>3 DEF ChainRow, ChainState
  <1>5. frows' = [frows EXCEPT ![j] = new]
    BY DEF F!Pick
  <1> HIDE DEF new
  <1>6. /\ frows' \in [F!Jobs -> ChainRow] /\ frows'[j] = new
        /\ \A i \in F!Jobs \ {j} : frows'[i] = frows[i]
    BY <1>2, <1>4, <1>5, ChainTyped
  <1>7. /\ proc' \in [F!Services -> ChainState] /\ proc'[c].pc = "launch"
        /\ proc'[c].n = proc[c].n /\ proc'[c].fp = proc[c].fp
        /\ \A t \in F!Services \ {c} : proc'[t] = proc[t]
    BY <1>2, ChainTyped, GoesTo DEF F!Pick
  <1>8. /\ fstatus' \in [F!Campaigns -> Statuses] /\ fstatus'[c] = "running"
        /\ \A d \in F!Campaigns \ {c} : fstatus'[d] = fstatus[d]
    BY ChainTyped, SavesStatus DEF F!Pick, Statuses
  <1>9. ChainTypes'
    BY <1>1, <1>6, <1>7, <1>8, ChainTyped DEF ChainTypes, Statuses
  <1>10. F!Job(c)' = j
    BY <1>7 DEF F!Job, F!Order
  <1>11. ChainPlaced(c)'
    BY <1>1, <1>2, <1>7 DEF ChainPlaced, F!Order
  <1>12. c = "stage2" /\ held' => j \notin Threaded
    BY <1>1 DEF F!Passed
  <1>13. ChainInHand(c)'
    BY <1>1, <1>4, <1>6, <1>7, <1>8, <1>10, <1>12 DEF ChainInHand
  <1>14. ChainFiled(j)'
    BY <1>4, <1>6 DEF ChainFiled
  <1>15. c = "fidelity" => FidelityBehind'
    <2> SUFFICES ASSUME c = "fidelity"
                 PROVE  FidelityBehind'
      OBVIOUS
    <2>1. FidelityBehind /\ F!Order(c) = FidelityJobs
      BY ChainOrders DEF ChainInv
    <2>2. ~(frows[j].state = "complete" /\ frows[j].tool = proc[c].fp)
      BY <1>1 DEF F!Passed
    <2>3. \A i \in 1 .. (proc[c].n - 1) : FidelityJobs[i] # j
      BY <1>1, <1>2, <2>1, <2>2, BehindIsOther
    <2>4. \A i \in 1 .. (proc[c].n - 1) : frows'[FidelityJobs[i]] = frows[FidelityJobs[i]]
      <3>1. Len(FidelityJobs) \in Nat /\ \A i \in 1 .. Len(FidelityJobs) : FidelityJobs[i] \in F!Jobs
        BY FidelityJob, ChainOrders
      <3> QED
        BY <1>1, <1>2, <1>6, <2>1, <2>3, <3>1
    <2> QED
      BY <1>1, <1>7, <2>1, <2>4 DEF FidelityBehind
  <1> QED
    BY <1>1, <1>6, <1>7, <1>8, <1>9, <1>11, <1>13, <1>14, <1>15, ChainLocal

\* What a child has written, if anything, when a job is given up.
ChildWrote(c) ==
  \/ UNCHANGED fruns
  \/ /\ frows[F!Job(c)].dir \in DOMAIN fruns[F!Job(c)]
     /\ \E r \in Run : fruns' = [fruns EXCEPT ![F!Job(c)][frows[F!Job(c)].dir] = r]

LEMMA ChildFiles ==
    ASSUME ChainInv, NEW c \in F!Campaigns, F!Job(c) \in F!Jobs, ChildWrote(c)
    PROVE  /\ fruns' \in [F!Jobs \cup F!JobsOf("trials") -> Seq(Run)]
           /\ \A i \in (F!Jobs \cup F!JobsOf("trials")) \ {F!Job(c)} : fruns'[i] = fruns[i]
           /\ DOMAIN fruns'[F!Job(c)] = DOMAIN fruns[F!Job(c)]
           /\ Len(fruns'[F!Job(c)]) = Len(fruns[F!Job(c)])
  <1> PICK j : j = F!Job(c)
    OBVIOUS
  <1> PICK D : D = F!Jobs \cup F!JobsOf("trials")
    OBVIOUS
  <1>1. fruns \in [D -> Seq(Run)] /\ j \in D
    BY ChainTyped
  <1>2. CASE UNCHANGED fruns
    BY <1>1, <1>2
  <1>3. ASSUME NEW r \in Run, NEW d \in DOMAIN fruns[j], fruns' = [fruns EXCEPT ![j][d] = r]
        PROVE  /\ fruns' \in [D -> Seq(Run)] /\ \A i \in D \ {j} : fruns'[i] = fruns[i]
               /\ DOMAIN fruns'[j] = DOMAIN fruns[j] /\ Len(fruns'[j]) = Len(fruns[j])
    BY <1>1, <1>3, WritesRecord
  <1> QED
    BY <1>2, <1>3 DEF ChildWrote

LEMMA AbortsKeeps ==
    ASSUME ChainInv, UNCHANGED <<build, held>>, NEW c \in F!Campaigns,
           proc[c].pc \in {"launch", "child", "check", "publish"},
           NEW how \in {"failed", "interrupted"}, F!Aborts(c, how), ChildWrote(c)
    PROVE  ChainInv'
  <1> PICK j : j = F!Job(c)
    OBVIOUS
  <1>1. j \in F!Jobs /\ c \in F!Services /\ frows[j] \in ChainRow
    BY ChainHolding, ChainOrders
  <1> DEFINE r == [frows[j] EXCEPT !.state = how]
  <1>2. frows' = [frows EXCEPT ![j] = r] /\ r \in ChainRow /\ r.state = how
    BY <1>1 DEF F!Aborts, ChainRow
  <1> HIDE DEF r
  <1>3. /\ frows' \in [F!Jobs -> ChainRow] /\ frows'[j].state = how
        /\ \A i \in F!Jobs \ {j} : frows'[i] = frows[i]
    BY <1>1, <1>2, ChainTyped
  <1>4. /\ proc' \in [F!Services -> ChainState] /\ proc'[c].pc = "off"
        /\ \A t \in F!Services \ {c} : proc'[t] = proc[t]
    BY <1>1, ChainTyped, MovesTo DEF F!Aborts, F!Leaves
  <1>5. /\ fstatus' \in [F!Campaigns -> Statuses] /\ fstatus'[c] = how
        /\ \A d \in F!Campaigns \ {c} : fstatus'[d] = fstatus[d]
    BY ChainTyped, SavesStatus DEF F!Aborts, Statuses
  <1>6. ChainTypes'
    BY <1>1, <1>3, <1>4, <1>5, ChainTyped, ChildFiles DEF ChainTypes, Statuses
  <1>7. (ChainPlaced(c) /\ ChainInHand(c))' /\ (c = "fidelity" => FidelityBehind')
    BY <1>4 DEF ChainPlaced, ChainInHand, FidelityBehind
  <1>8. ChainFiled(j)'
    BY <1>3 DEF ChainFiled
  <1> QED
    BY <1>1, <1>3, <1>4, <1>5, <1>6, <1>7, <1>8, ChildFiles, ChainLocal

\* The child of a campaign is started or ends, and no row is saved.
LEMMA ChainChildRuns ==
    ASSUME ChainInv, UNCHANGED <<build, held, fstatus, frows>>, NEW c \in F!Campaigns,
           proc[c].pc \in {"launch", "child"}, NEW p \in {"child", "check"}, F!To(c, p),
           NEW j, j = F!Job(c),
           fruns' \in [F!Jobs \cup F!JobsOf("trials") -> Seq(Run)],
           \A i \in (F!Jobs \cup F!JobsOf("trials")) \ {j} : fruns'[i] = fruns[i],
           j \notin Preparations =>
             /\ frows[j].dir \in DOMAIN fruns'[j]
             /\ p = "child" => fruns'[j][frows[j].dir].manifest = "running"
    PROVE  ChainInv'
  <1>1. c \in F!Services /\ j \in F!Jobs /\ ChainInHand(c) /\ fstatus[c] # "complete"
    BY ChainHolding, ChainOrders
  <1>2. /\ proc' \in [F!Services -> ChainState] /\ proc'[c].pc = p
        /\ proc'[c].n = proc[c].n /\ proc'[c].fp = proc[c].fp
        /\ \A t \in F!Services \ {c} : proc'[t] = proc[t]
    BY <1>1, ChainTyped, GoesTo
  <1>3. ChainTypes'
    BY <1>2, ChainTyped DEF ChainTypes, Statuses
  <1>4. F!Job(c)' = j
    BY <1>2 DEF F!Job, F!Order
  <1>5. ChainPlaced(c)'
    BY <1>2, ChainHolding DEF ChainPlaced, F!Order
  <1>6. frows[j].state = "running" /\ frows[j].tool = proc[c].fp
    BY <1>1 DEF ChainInHand
  <1>7. ChainInHand(c)'
    BY <1>1, <1>2, <1>4, <1>6 DEF ChainInHand
  <1>8. ChainFiled(j)'
    BY <1>6 DEF ChainFiled
  <1>9. c = "fidelity" => FidelityBehind'
    BY <1>2 DEF ChainInv, FidelityBehind
  <1> QED
    BY <1>1, <1>2, <1>3, <1>5, <1>7, <1>8, <1>9, ChainLocal

LEMMA LaunchKeeps ==
    ASSUME ChainInv, UNCHANGED build, NEW c \in F!Campaigns, F!Launch(c)
    PROVE  ChainInv'
  <1> PICK j : j = F!Job(c)
    OBVIOUS
  <1> DEFINE d == frows[j].dir
             r == RunAt(fruns[j], d)
             tool == build["pin"]
  <1>1. /\ proc[c].pc = "launch" /\ UNCHANGED <<held>>
    BY DEF F!Launch, F!At
  <1>2. /\ j \in F!Jobs /\ ChainInHand(c) /\ fruns[j] \in Seq(Run) /\ tool \in Nat
        /\ fruns \in [F!Jobs \cup F!JobsOf("trials") -> Seq(Run)]
    BY <1>1, ChainHolding, ChainTyped
  <1>3. j \notin Preparations => d \in 1 .. (Len(fruns[j]) + 1)
    BY <1>1, <1>2 DEF ChainInHand
  <1>4. CASE j \in Preparations /\ F!To(c, "child") /\ UNCHANGED <<fstatus, frows, fruns>>
    BY <1>1, <1>2, <1>4, ChainChildRuns
  <1>5. CASE F!Aborts(c, "failed") /\ UNCHANGED fruns
    BY <1>1, <1>5, AbortsKeeps DEF ChildWrote
  <1>6. CASE Skips(r, tool) /\ F!To(c, "check") /\ UNCHANGED <<fstatus, frows, fruns>>
    <2>1. d \in DOMAIN fruns[j]
      BY <1>6 DEF Skips, RunAt, NoRun
    <2> QED
      BY <1>1, <1>2, <1>6, <2>1, ChainChildRuns
  <1>7. CASE /\ fruns' = [fruns EXCEPT ![j] = Stored(@, d, Begun(tool))]
             /\ F!To(c, "child") /\ j \notin Preparations /\ UNCHANGED <<fstatus, frows>>
    <2> DEFINE t == Stored(fruns[j], d, Begun(tool))
    <2>0. Begun(tool) \in Run /\ d \in 1 .. (Len(fruns[j]) + 1)
      BY <1>2, <1>3, <1>7, Manifests
    <2>1. t \in Seq(Run) /\ d \in DOMAIN t /\ t[d] = Begun(tool)
      BY <1>2, <2>0, StoresOne
    <2>2. Begun(tool).manifest = "running"
      BY DEF Begun, NoRun
    <2>3. fruns' = [fruns EXCEPT ![j] = t]
      BY <1>7
    <2> HIDE DEF t
    <2>4. /\ fruns' \in [F!Jobs \cup F!JobsOf("trials") -> Seq(Run)] /\ fruns'[j] = t
          /\ \A i \in (F!Jobs \cup F!JobsOf("trials")) \ {j} : fruns'[i] = fruns[i]
      BY <1>2, <2>1, <2>3
    <2>5. d \in DOMAIN fruns'[j] /\ fruns'[j][d].manifest = "running"
      BY <2>1, <2>2, <2>4
    <2> QED
      BY <1>1, <1>2, <1>7, <2>4, <2>5, ChainChildRuns
  <1> QED
    BY <1>4, <1>5, <1>6, <1>7, SameRecords DEF F!Launch

LEMMA ChildEndsKeeps ==
    ASSUME ChainInv, UNCHANGED build, NEW c \in F!Campaigns, F!ChildEnds(c)
    PROVE  ChainInv'
  <1> PICK j : j = F!Job(c)
    OBVIOUS
  <1>1. /\ proc[c].pc = "child" /\ F!To(c, "check") /\ UNCHANGED <<held, fstatus, frows>>
        /\ fruns' = F!ChildRun(c, "complete")
    BY DEF F!ChildEnds, F!At
  <1>2. /\ j \in F!Jobs /\ ChainInHand(c) /\ fruns[j] \in Seq(Run)
        /\ fruns \in [F!Jobs \cup F!JobsOf("trials") -> Seq(Run)]
    BY <1>1, ChainHolding
  <1>3. CASE j \in Preparations
    BY <1>1, <1>2, <1>3, ChainChildRuns DEF F!ChildRun
  <1>4. CASE j \notin Preparations
    <2> DEFINE d == frows[j].dir
               e == Ended(fruns[j][d], "complete", FALSE)
    <2>1. d \in DOMAIN fruns[j]
      BY <1>1, <1>2, <1>4 DEF ChainInHand
    <2>2. fruns' = [fruns EXCEPT ![j][d] = e]
      BY <1>1, <1>4, SameRecords DEF F!ChildRun
    <2>3. fruns[j][d] \in Run /\ "complete" \in Ends /\ FALSE \in BOOLEAN
      BY <1>2, <2>1 DEF Ends
    <2>4. e \in Run
      BY <2>3, Manifests
    <2> HIDE DEF e
    <2>5. ChildWrote(c)
      BY <2>1, <2>2, <2>4 DEF ChildWrote
    <2> QED
      BY <1>1, <1>2, <2>1, <2>5, ChildFiles, ChainChildRuns
  <1> QED
    BY <1>3, <1>4

LEMMA ChildFailsKeeps ==
    ASSUME ChainInv, UNCHANGED build, NEW c \in F!Campaigns, F!ChildFails(c)
    PROVE  ChainInv'
  <1> PICK j : j = F!Job(c)
    OBVIOUS
  <1>1. /\ proc[c].pc = "child" /\ F!Aborts(c, "failed") /\ UNCHANGED held
    BY DEF F!ChildFails, F!At
  <1>2. PICK end \in {"limited", "failed"} : fruns' = F!ChildRun(c, end)
    BY DEF F!ChildFails
  <1>3. j \in F!Jobs /\ ChainInHand(c) /\ fruns[j] \in Seq(Run)
    BY <1>1, ChainHolding
  <1>4. ChildWrote(c)
    <2>1. CASE j \in Preparations
      BY <1>2, <2>1 DEF F!ChildRun, ChildWrote
    <2>2. CASE j \notin Preparations
      <3> DEFINE d == frows[j].dir
                 e == Ended(fruns[j][d], end, FALSE)
      <3>1. d \in DOMAIN fruns[j] /\ end \in Ends
        BY <1>1, <1>3, <2>2 DEF ChainInHand, Ends
      <3>2. fruns' = [fruns EXCEPT ![j][d] = e]
        BY <1>2, <2>2, SameRecords DEF F!ChildRun
      <3>3. fruns[j][d] \in Run /\ FALSE \in BOOLEAN
        BY <1>3, <3>1
      <3>4. e \in Run
        BY <3>1, <3>3, Manifests
      <3> HIDE DEF e
      <3> QED
        BY <3>1, <3>2, <3>4 DEF ChildWrote
    <2> QED
      BY <2>1, <2>2
  <1> QED
    BY <1>1, <1>4, AbortsKeeps

LEMMA CheckKeepsChain ==
    ASSUME ChainInv, UNCHANGED build, NEW c \in F!Campaigns, F!Check(c)
    PROVE  ChainInv'
  <1> PICK j : j = F!Job(c)
    OBVIOUS
  <1>1. proc[c].pc = "check" /\ UNCHANGED <<held, fruns>>
    BY DEF F!Check, F!At
  <1>2. CASE F!Aborts(c, "failed")
    BY <1>1, <1>2, AbortsKeeps DEF ChildWrote
  <1>3. CASE /\ F!Accepts(c) /\ F!To(c, "publish") /\ UNCHANGED fstatus
             /\ frows' = [frows EXCEPT ![j].state = "complete"]
    <2>1. /\ c \in F!Services /\ j \in F!Jobs /\ frows[j] \in ChainRow /\ ChainInHand(c)
          /\ fstatus[c] # "complete"
      BY <1>1, ChainHolding, ChainOrders
    <2> DEFINE r == [frows[j] EXCEPT !.state = "complete"]
    <2>2. /\ frows' = [frows EXCEPT ![j] = r] /\ r \in ChainRow /\ r.state = "complete"
          /\ r.tool = frows[j].tool /\ r.dir = frows[j].dir
      BY <1>3, <2>1 DEF ChainRow
    <2> HIDE DEF r
    <2>3. /\ frows' \in [F!Jobs -> ChainRow] /\ frows'[j] = r
          /\ \A i \in F!Jobs \ {j} : frows'[i] = frows[i]
      BY <2>1, <2>2, ChainTyped
    <2>4. /\ proc' \in [F!Services -> ChainState] /\ proc'[c].pc = "publish"
          /\ proc'[c].n = proc[c].n /\ proc'[c].fp = proc[c].fp
          /\ \A t \in F!Services \ {c} : proc'[t] = proc[t]
      BY <1>3, <2>1, ChainTyped, GoesTo
    <2>5. ChainTypes'
      BY <1>1, <1>3, <2>3, <2>4, ChainTyped DEF ChainTypes, Statuses
    <2>6. F!Job(c)' = j
      BY <2>4 DEF F!Job, F!Order
    <2>7. ChainPlaced(c)'
      BY <1>1, <2>4, ChainHolding DEF ChainPlaced, F!Order
    <2>8. ChainInHand(c)'
      BY <1>1, <1>3, <2>1, <2>2, <2>3, <2>4, <2>6 DEF ChainInHand
    <2>9. ChainFiled(j)'
      BY <1>1, <1>3, <2>1, <2>2, <2>3 DEF ChainFiled, ChainInHand, F!Accepts
    <2>10. c = "fidelity" => FidelityBehind'
      <3> SUFFICES ASSUME c = "fidelity"
                   PROVE  FidelityBehind'
        OBVIOUS
      <3>1. FidelityBehind /\ frows[j].state = "running" /\ proc[c].n \in Nat
        BY <1>1, <2>1, ChainHolding DEF ChainInv, ChainInHand
      <3>2. \A i \in 1 .. (proc[c].n - 1) : i <= Len(FidelityJobs) =>
               FidelityJobs[i] # j /\ FidelityJobs[i] \in F!Jobs
        <4>1. \A i \in 1 .. (proc[c].n - 1) : i <= Len(FidelityJobs) =>
                 frows[FidelityJobs[i]].state = "complete"
          BY <1>1, <3>1 DEF FidelityBehind
        <4>2. \A i \in 1 .. Len(FidelityJobs) : FidelityJobs[i] \in F!Jobs
          BY FidelityJob, ChainOrders
        <4>3. Len(FidelityJobs) \in Nat
          BY FidelityJob
        <4> QED
          BY <3>1, <4>1, <4>2, <4>3
      <3> QED
        BY <1>1, <2>2, <2>3, <2>4, <2>6, <3>1, <3>2 DEF FidelityBehind
    <2> QED
      BY <1>1, <1>3, <2>1, <2>3, <2>4, <2>5, <2>7, <2>8, <2>9, <2>10, ChainLocal
  <1> QED
    BY <1>2, <1>3 DEF F!Check

LEMMA FinishKeepsChain ==
    ASSUME ChainInv, UNCHANGED build, NEW c \in F!Campaigns, F!Finish(c)
    PROVE  ChainInv'
  <1> PICK how : how = IF c = "stage2" /\ \E j \in F!JobsOf(c) : frows[j].state # "complete"
                       THEN "held" ELSE "complete"
    OBVIOUS
  <1>1. /\ proc[c].pc = "pick" /\ ~(proc[c].n <= Len(F!Order(c))) /\ F!Leaves(c)
        /\ UNCHANGED <<frows, held, fruns>> /\ c \in F!Services /\ how \in Statuses
        /\ fstatus' = [fstatus EXCEPT ![c] = how]
    BY ChainOrders DEF F!Finish, F!At, F!More, Statuses
  <1>2. /\ fstatus' \in [F!Campaigns -> Statuses] /\ fstatus'[c] = how
        /\ \A d \in F!Campaigns \ {c} : fstatus'[d] = fstatus[d]
    BY <1>1, ChainTyped, SavesStatus
  <1>3. how = "complete" => \A j \in F!JobsOf(c) : frows[j].state = "complete"
    <2>1. CASE c = "stage2"
      BY <2>1
    <2>2. CASE c = "fidelity"
      <3>1. /\ FidelityBehind /\ Len(FidelityJobs) \in Nat
            /\ proc[c].n \in Nat \ {0} /\ F!Order(c) = FidelityJobs
        BY <1>1, <2>2, ChainOrders, FidelityJob DEF ChainInv, ChainPlaced
      <3>2. \A i \in 1 .. Len(FidelityJobs) : frows[FidelityJobs[i]].state = "complete"
        BY <1>1, <2>2, <3>1 DEF FidelityBehind
      <3> QED
        BY <2>2, <3>2, FidelityJob
    <2> QED
      BY <2>1, <2>2, ChainOrders
  <1>4. Concluded'
    <2>1. ASSUME NEW d \in F!Campaigns, fstatus'[d] = "complete", NEW i \in F!JobsOf(d)
          PROVE  frows'[i].state = "complete"
      <3>1. d # c => frows[i].state = "complete"
        BY <1>2, <2>1 DEF ChainInv, Concluded
      <3> QED
        BY <1>1, <1>2, <1>3, <2>1, <3>1
    <2> QED
      BY <2>1 DEF Concluded, F!JobsOf, F!Order
  <1> QED
    BY <1>1, <1>2, <1>4, ServiceEnds

LEMMA CampaignStepKeeps ==
    ASSUME ChainInv, UNCHANGED build, NEW c \in F!Campaigns,
           F!CampaignSteps(c) \/ F!ChildFails(c) \/ F!PublishFails(c) \/ F!Interrupt(c)
    PROVE  ChainInv'
  <1>1. CASE F!Skip(c)
    <2>1. /\ proc[c].pc = "pick" /\ proc[c].n <= Len(F!Order(c)) /\ F!Passes(c)
          /\ UNCHANGED <<fstatus, frows, held, fruns>> /\ F!Passed(c)
      BY <1>1 DEF F!Skip, F!At, F!More
    <2> QED
      BY <2>1, PassesKeeps DEF F!Passed
  <1>2. CASE F!Publish(c)
    <2>1. /\ proc[c].pc = "publish" /\ F!Passes(c) /\ UNCHANGED <<fstatus, frows, held, fruns>>
      BY <1>2 DEF F!Publish, F!At
    <2>2. /\ proc[c].n <= Len(F!Order(c)) /\ frows[F!Job(c)].tool = proc[c].fp
          /\ c = "fidelity" => frows[F!Job(c)].state = "complete"
      BY <2>1, ChainHolding DEF ChainInHand, ChainInv, FidelityBehind
    <2> QED
      BY <2>1, <2>2, PassesKeeps
  <1>3. CASE F!PublishFails(c)
    BY <1>3, AbortsKeeps DEF F!PublishFails, F!At, ChildWrote
  <1>4. CASE F!Interrupt(c)
    BY <1>4, AbortsKeeps DEF F!Interrupt, ChildWrote
  <1> QED
    BY <1>1, <1>2, <1>3, <1>4, PickKeepsChain, LaunchKeeps, ChildEndsKeeps, ChildFailsKeeps,
       CheckKeepsChain, FinishKeepsChain DEF F!CampaignSteps

\* A wait begins.
LEMMA WaitsKeep ==
    ASSUME ChainInv, UNCHANGED build, NEW s \in F!Services, F!StartWaiting(s)
    PROVE  ChainInv'
  <1>1. /\ s \in {"trials", "resume"} /\ UNCHANGED <<fstatus, frows, held, fruns>>
        /\ s \notin F!Campaigns
    BY ChainOrders DEF F!StartWaiting
  <1>2. /\ proc' \in [F!Services -> ChainState] /\ proc'[s].pc = "await"
        /\ \A t \in F!Services \ {s} : proc'[t] = proc[t]
    BY ChainTyped, GoesTo DEF F!StartWaiting
  <1>3. ChainTypes' /\ Concluded'
    BY <1>1, <1>2, ChainTyped, StillConcluded DEF ChainTypes, Statuses
  <1>4. s = "trials" => (ChainPlaced("trials") /\ TrialInHand)'
    BY <1>2 DEF ChainPlaced, TrialInHand
  <1> QED
    BY <1>1, <1>2, <1>3, <1>4, ChainQuiet

\* A service ends and its status file stays as it is.
LEMMA EndsKeep ==
    ASSUME ChainInv, NEW s \in F!Services, F!Leaves(s),
           UNCHANGED <<build, fstatus, frows, held, fruns>>
    PROVE  ChainInv'
  BY ChainTyped, StillConcluded, ServiceEnds

LEMMA AwaitFidelityKeeps ==
    ASSUME ChainInv, UNCHANGED build, F!AwaitFidelity
    PROVE  ChainInv'
  <1> DEFINE q == [F!Off EXCEPT !.pc = "pick"]
             s == [q EXCEPT !.n = 1]
  <1>1. /\ proc' = [proc EXCEPT !["trials"] = s] /\ "trials" \in F!Services
        /\ "trials" \notin F!Campaigns
        /\ UNCHANGED <<fstatus, frows, held, fruns>>
    BY ChainOrders DEF F!AwaitFidelity
  <1>2. q \in ChainState /\ q.pc = "pick"
    BY ChainTyped DEF ChainState
  <1> HIDE DEF q
  <1>3. s \in ChainState /\ s.pc = "pick" /\ s.n = 1
    BY <1>2 DEF ChainState
  <1> HIDE DEF s
  <1>4. /\ proc' \in [F!Services -> ChainState] /\ proc'["trials"] = s
        /\ \A t \in F!Services \ {"trials"} : proc'[t] = proc[t]
    BY <1>1, <1>3, ChainTyped, MovesTo
  <1>5. ChainTypes' /\ Concluded'
    BY <1>1, <1>4, ChainTyped, StillConcluded DEF ChainTypes, Statuses
  <1>6. (ChainPlaced("trials") /\ TrialInHand)'
    BY <1>3, <1>4 DEF ChainPlaced, TrialInHand
  <1> QED
    BY <1>1, <1>4, <1>5, <1>6, ChainQuiet

\* The trials have the one directory of each workload to themselves, and write
\* to it only while it is not complete.
LEMMA TrialWrites ==
    ASSUME ChainInv, ChainTypes', UNCHANGED <<fstatus, frows, held>>,
           proc["trials"].n \in Nat \ {0}, proc["trials"].n <= Len(F!Order("trials")),
           \A t \in F!Services \ {"trials"} : proc'[t] = proc[t],
           NEW j, j = F!Job("trials"), RunAt(fruns[j], 1).manifest # "complete",
           \A i \in (F!Jobs \cup F!JobsOf("trials")) \ {j} : fruns'[i] = fruns[i],
           (ChainPlaced("trials") /\ TrialInHand)'
    PROVE  ChainInv'
  <1>1. j \in F!JobsOf("trials") /\ j \notin F!Jobs
    BY ChainJob
  <1>2. ~TrialsComplete
    BY <1>1 DEF TrialsComplete, RunAt
  <1>3. \A i \in F!Jobs : fruns'[i] = fruns[i]
    BY <1>1
  <1>4. ASSUME NEW c \in F!Campaigns
        PROVE  (ChainPlaced(c) /\ ChainInHand(c))'
    <2>1. ChainPlaced(c) /\ ChainInHand(c) /\ proc'[c] = proc[c]
      BY ChainOrders DEF ChainInv
    <2>2. F!Job(c)' = F!Job(c)
      BY <2>1 DEF F!Job, F!Order
    <2>3. ChainPlaced(c)'
      BY <2>1 DEF ChainPlaced, F!Order
    <2>4. proc[c].pc \in {"launch", "child", "check"} => fruns'[F!Job(c)] = fruns[F!Job(c)]
      BY <1>3, ChainHolding
    <2>5. ChainInHand(c)'
      BY <2>1, <2>2, <2>4 DEF ChainInHand
    <2> QED
      BY <2>3, <2>5
  <1>5. FidelityBehind'
    BY ChainOrders DEF ChainInv, FidelityBehind, F!Job, F!Order
  <1>6. TrialsBehind'
    BY <1>2, ChainOrders DEF ChainInv, TrialsBehind, F!JobsOf, F!Order
  <1>7. Concluded'
    BY StillConcluded
  <1>8. ASSUME NEW i \in F!Jobs
        PROVE  ChainFiled(i)'
    BY <1>3 DEF ChainInv, ChainFiled
  <1> QED
    BY <1>4, <1>5, <1>6, <1>7, <1>8 DEF ChainInv, F!Campaigns, F!Jobs

LEMMA TrialHolding ==
    ASSUME ChainInv, proc["trials"].pc \in {"pick", "child"},
           proc["trials"].pc = "pick" => proc["trials"].n <= Len(F!Order("trials"))
    PROVE  /\ proc["trials"].n \in Nat \ {0} /\ proc["trials"].n <= Len(F!Order("trials"))
           /\ F!Job("trials") \in F!JobsOf("trials")
           /\ fruns[F!Job("trials")] \in Seq(Run) /\ "trials" \in F!Services
  <1>1. proc["trials"].n \in Nat \ {0} /\ proc["trials"].n <= Len(F!Order("trials"))
    BY DEF ChainInv, ChainPlaced
  <1> QED
    BY <1>1, ChainJob, ChainTyped, ChainOrders

LEMMA RepeatKeeps ==
    ASSUME ChainInv, UNCHANGED build, F!Repeat
    PROVE  ChainInv'
  <1> PICK j : j = F!Job("trials")
    OBVIOUS
  <1> PICK D : D = F!Jobs \cup F!JobsOf("trials")
    OBVIOUS
  <1> DEFINE r == RunAt(fruns[j], 1)
             tool == build["pin"]
  <1>1. /\ proc["trials"].pc = "pick" /\ proc["trials"].n <= Len(F!Order("trials"))
        /\ UNCHANGED <<fstatus, frows, held>>
    BY DEF F!Repeat, F!At, F!More
  <1>2. /\ proc["trials"].n \in Nat \ {0} /\ j \in F!JobsOf("trials") /\ fruns[j] \in Seq(Run)
        /\ "trials" \in F!Services /\ "trials" \notin F!Campaigns
        /\ fruns \in [D -> Seq(Run)] /\ j \in D /\ tool \in Nat
    BY <1>1, TrialHolding, ChainTyped, ChainOrders
  <1>3. CASE F!Leaves("trials") /\ UNCHANGED fruns
    BY <1>1, <1>2, <1>3, EndsKeep
  <1>4. CASE F!Passes("trials") /\ UNCHANGED fruns
    <2>1. /\ proc' \in [F!Services -> ChainState] /\ proc'["trials"].pc = "pick"
          /\ proc'["trials"].n = proc["trials"].n + 1
          /\ \A t \in F!Services \ {"trials"} : proc'[t] = proc[t]
      BY <1>2, <1>4, ChainTyped, GoesOn
    <2>2. ChainTypes' /\ Concluded'
      BY <1>1, <1>4, <2>1, ChainTyped, StillConcluded DEF ChainTypes, Statuses
    <2>3. (ChainPlaced("trials") /\ TrialInHand)'
      BY <1>2, <2>1 DEF ChainPlaced, TrialInHand
    <2> QED
      BY <1>1, <1>2, <1>4, <2>1, <2>2, <2>3, ChainQuiet
  <1>5. CASE /\ ~Refuses(r, tool) /\ ~Skips(r, tool) /\ F!To("trials", "child")
             /\ fruns' = [fruns EXCEPT ![j] = Stored(@, 1, Begun(tool))]
    <2> DEFINE t == Stored(fruns[j], 1, Begun(tool))
    <2>0. Begun(tool) \in Run /\ 1 \in 1 .. (Len(fruns[j]) + 1)
      BY <1>2, Manifests
    <2>1. t \in Seq(Run) /\ 1 \in DOMAIN t /\ t[1] = Begun(tool)
      BY <1>2, <2>0, StoresOne
    <2>2. Begun(tool).manifest = "running"
      BY DEF Begun, NoRun
    <2>3. fruns' = [fruns EXCEPT ![j] = t]
      BY <1>5
    <2> HIDE DEF t
    <2>4. /\ fruns' \in [D -> Seq(Run)] /\ fruns'[j] = t
          /\ \A i \in D \ {j} : fruns'[i] = fruns[i]
      BY <1>2, <2>1, <2>3
    <2>5. /\ proc' \in [F!Services -> ChainState] /\ proc'["trials"].pc = "child"
          /\ proc'["trials"].n = proc["trials"].n
          /\ \A s \in F!Services \ {"trials"} : proc'[s] = proc[s]
      BY <1>2, <1>5, ChainTyped, GoesTo
    <2>6. ChainTypes'
      BY <1>1, <2>4, <2>5, ChainTyped DEF ChainTypes, Statuses
    <2>7. F!Job("trials")' = j
      BY <2>5 DEF F!Job, F!Order
    <2>8. (ChainPlaced("trials") /\ TrialInHand)'
      BY <1>1, <1>2, <2>1, <2>2, <2>4, <2>5, <2>7 DEF ChainPlaced, TrialInHand, F!Order
    <2>9. r.manifest # "complete"
      BY <1>5 DEF Refuses
    <2> QED
      BY <1>1, <1>2, <2>4, <2>5, <2>6, <2>8, <2>9, TrialWrites
  <1> QED
    BY <1>3, <1>4, <1>5, SameRecords DEF F!Repeat

LEMMA RepeatEndsKeeps ==
    ASSUME ChainInv, UNCHANGED build, NEW end \in Ends, F!RepeatEnds(end)
    PROVE  ChainInv'
  <1> PICK j : j = F!Job("trials")
    OBVIOUS
  <1> PICK D : D = F!Jobs \cup F!JobsOf("trials")
    OBVIOUS
  <1> DEFINE e == Ended(fruns[j][1], end, FALSE)
  <1>1. /\ proc["trials"].pc = "child" /\ UNCHANGED <<fstatus, frows, held>>
        /\ F!Passes("trials") /\ fruns' = [fruns EXCEPT ![j][1] = e]
    BY SameRecords DEF F!RepeatEnds, F!At
  <1>2. /\ proc["trials"].n \in Nat \ {0} /\ proc["trials"].n <= Len(F!Order("trials"))
        /\ j \in F!JobsOf("trials") /\ fruns[j] \in Seq(Run)
        /\ "trials" \in F!Services /\ fruns \in [D -> Seq(Run)] /\ j \in D
    BY <1>1, TrialHolding, ChainTyped
  <1>3. 1 \in DOMAIN fruns[j] /\ fruns[j][1].manifest = "running"
    BY <1>1 DEF ChainInv, TrialInHand
  <1>4. e \in Run
    <2>1. fruns[j][1] \in Run /\ FALSE \in BOOLEAN
      BY <1>2, <1>3
    <2> QED
      BY <2>1, Manifests
  <1> HIDE DEF e
  <1>5. fruns' \in [D -> Seq(Run)] /\ \A i \in D \ {j} : fruns'[i] = fruns[i]
    BY <1>1, <1>2, <1>3, <1>4, WritesRecord
  <1>6. /\ proc' \in [F!Services -> ChainState] /\ proc'["trials"].pc = "pick"
        /\ proc'["trials"].n = proc["trials"].n + 1
        /\ \A t \in F!Services \ {"trials"} : proc'[t] = proc[t]
    BY <1>1, <1>2, ChainTyped, GoesOn
  <1>7. ChainTypes'
    BY <1>1, <1>5, <1>6, ChainTyped DEF ChainTypes, Statuses
  <1>8. (ChainPlaced("trials") /\ TrialInHand)'
    BY <1>2, <1>6 DEF ChainPlaced, TrialInHand
  <1>9. RunAt(fruns[j], 1).manifest # "complete"
    BY <1>3 DEF RunAt
  <1> QED
    BY <1>1, <1>2, <1>5, <1>6, <1>7, <1>8, <1>9, TrialWrites

LEMMA ChainStepKeeps ==
    ASSUME ChainInv, UNCHANGED build, F!Steps \/ F!Resume
    PROVE  ChainInv'
  <1>1. ASSUME NEW s \in F!Services, F!Stopped(s) \/ F!Kill(s)
        PROVE  ChainInv'
    BY <1>1, EndsKeep DEF F!Stopped, F!Kill
  <1>2. "trials" \in F!Services /\ "resume" \in F!Services /\ "complete" \in Ends
    BY ChainOrders DEF Ends
  <1>3. CASE F!RepeatsDone
    BY <1>2, <1>3, EndsKeep DEF F!RepeatsDone
  <1>4. CASE F!RepeatFails
    BY <1>4, RepeatEndsKeeps, SameRecords DEF F!RepeatFails
  <1>5. CASE F!Resume
    BY <1>2, <1>5, EndsKeep DEF F!Resume
  <1> QED
    BY <1>1, <1>2, <1>3, <1>4, <1>5, StartFidelityKeeps, AwaitTrialsKeeps, WaitForMemoryKeeps,
       StartStage2Keeps, CampaignStepKeeps, WaitsKeep, AwaitFidelityKeeps, RepeatKeeps,
       RepeatEndsKeeps
       DEF F!Steps, F!TrialSteps

--------------------------------------------------------------------------------
(* What a step does to complete collections, and to jobs that are held.       *)

\* CompleteKept for one job's directories, before and after.
Kept(before, after) ==
  \A d \in DOMAIN before : before[d].manifest = "complete" =>
     d \in DOMAIN after /\ after[d] = before[d]

\* Only what is not there, or is not complete, is written.
LEMMA StoringKeeps ==
    ASSUME NEW s \in Seq(Run), NEW d \in 1 .. (Len(s) + 1), NEW tool \in Nat,
           ~Refuses(RunAt(s, d), tool), ~Skips(RunAt(s, d), tool)
    PROVE  Kept(s, Stored(s, d, Begun(tool)))
  <1>1. d \in DOMAIN s => s[d].manifest # "complete"
    BY DEF Refuses, RunAt
  <1>2. LET t == Stored(s, d, Begun(tool))
        IN  DOMAIN s \subseteq DOMAIN t /\ \A e \in DOMAIN s : e # d => t[e] = s[e]
    BY Manifests, StoresOne
  <1> QED
    BY <1>1, <1>2 DEF Kept

LEMMA EndingKeeps ==
    ASSUME NEW D, NEW f \in [D -> Seq(Run)], NEW j \in D, NEW d \in DOMAIN f[j],
           f[j][d].manifest = "running", NEW r \in Run, NEW g, g = [f EXCEPT ![j][d] = r]
    PROVE  \A i \in D : Kept(f[i], g[i])
  <1>1. /\ \A i \in D \ {j} : g[i] = f[i]
        /\ DOMAIN g[j] = DOMAIN f[j]
        /\ \A e \in DOMAIN f[j] : e # d => g[j][e] = f[j][e]
    BY WritesRecord
  <1> QED
    BY <1>1 DEF Kept

LEMMA LanesKeepRuns ==
    ASSUME LaneInv, Next
    PROVE  CompleteKept
  <1> SUFFICES \A j \in Elements(PinJobs) : Kept(runs[j], runs'[j])
    BY DEF CompleteKept, Kept
  <1>1. runs \in [Jobs -> Seq(Run)] /\ Elements(PinJobs) \subseteq Jobs /\ build["pin"] \in Nat
    BY DEF LaneInv, LaneTypes, Jobs, Lanes
  <1>2. CASE UNCHANGED runs
    BY <1>2 DEF Kept
  <1>3. CASE LaunchPin
    <2> PICK j : j = Job("pin")
      OBVIOUS
    <2> DEFINE d == lane["pin"].dir
               tool == build["pin"]
    <2>1. j \in Jobs /\ runs[j] \in Seq(Run) /\ d \in 1 .. (Len(runs[j]) + 1)
      BY <1>3, Holding DEF LaunchPin, Lanes, InHand
    <2>2. CASE /\ ~Refuses(RunAt(runs[j], d), tool) /\ ~Skips(RunAt(runs[j], d), tool)
               /\ runs' = [runs EXCEPT ![j] = Stored(@, d, Begun(tool))]
      <3> DEFINE t == Stored(runs[j], d, Begun(tool))
      <3>1. Kept(runs[j], t)
        BY <1>1, <2>1, <2>2, StoringKeeps
      <3>2. runs' = [runs EXCEPT ![j] = t]
        BY <2>2
      <3> HIDE DEF t
      <3>3. runs'[j] = t /\ \A i \in Jobs \ {j} : runs'[i] = runs[i]
        BY <1>1, <2>1, <3>2
      <3> QED
        BY <1>1, <3>1, <3>3 DEF Kept
    <2> QED
      BY <1>2, <1>3, <2>2 DEF LaunchPin
  <1>4. ASSUME NEW gaps \in BOOLEAN, NEW end \in Ends, lane["pin"].pc = "child",
               runs' = [runs EXCEPT ![Job("pin")][lane["pin"].dir] = Ended(@, end, gaps)]
        PROVE  \A j \in Elements(PinJobs) : Kept(runs[j], runs'[j])
    <2> PICK j : j = Job("pin")
      OBVIOUS
    <2> DEFINE d == lane["pin"].dir
               r == Ended(runs[j][d], end, gaps)
    <2>1. /\ j \in Jobs /\ runs[j] \in Seq(Run) /\ d \in DOMAIN runs[j]
          /\ runs[j][d].manifest = "running"
      BY <1>4, Holding DEF Lanes, InHand, Directory
    <2>2. r \in Run
      BY <1>4, <2>1, Manifests
    <2>3. runs' = [runs EXCEPT ![j][d] = r]
      BY <1>4
    <2> HIDE DEF r
    <2>4. \A i \in Jobs : Kept(runs[i], runs'[i])
      BY <1>1, <2>1, <2>2, <2>3, EndingKeeps
    <2> QED
      BY <1>1, <2>4
  <1>5. CASE CollectFails
    <2>1. PICK end \in {"limited", "failed"} :
            runs' = [runs EXCEPT ![Job("pin")][lane["pin"].dir] = Ended(@, end, FALSE)]
      BY <1>5 DEF CollectFails
    <2> QED
      BY <1>4, <1>5, <2>1 DEF CollectFails, Ends
  <1>6. ASSUME NEW gaps \in BOOLEAN, Collect(gaps)
        PROVE  \A j \in Elements(PinJobs) : Kept(runs[j], runs'[j])
    BY <1>4, <1>6 DEF Collect, Ends
  <1>7. ASSUME lane["sim"].pc \notin {"off", "pick"}, NEW x,
               runs' = [runs EXCEPT ![Job("sim")] = x]
        PROVE  \A j \in Elements(PinJobs) : Kept(runs[j], runs'[j])
    <2>1. Job("sim") \notin Elements(PinJobs)
      BY <1>7, Holding DEF Lanes
    <2> QED
      BY <1>1, <1>7, <2>1 DEF Kept
  <1>8. CASE LaunchSim
    <2>1. \/ UNCHANGED runs
          \/ \E x : runs' = [runs EXCEPT ![Job("sim")] = x]
      BY <1>8 DEF LaunchSim
    <2> QED
      BY <1>2, <1>7, <1>8, <2>1 DEF LaunchSim
  <1>9. ASSUME NEW l \in Lanes, Prepare(l)
        PROVE  \A j \in Elements(PinJobs) : Kept(runs[j], runs'[j])
    <2>1. \/ UNCHANGED runs
          \/ l = "sim" /\ \E x : runs' = [runs EXCEPT ![Job("sim")] = x]
      BY <1>9 DEF Prepare
    <2> QED
      BY <1>2, <1>7, <1>9, <2>1 DEF Prepare
  <1>10. \A l \in Lanes : (\E safe \in BOOLEAN : Start(l, safe)) \/ DiskFull(l) \/ Interrupt(l)
             \/ Kill(l) \/ Rebuild(l) \/ Skip(l) \/ Pick(l) \/ Publish(l) \/ Check(l) \/ Finish(l)
           => UNCHANGED runs
    BY DEF Start, DiskFull, Interrupt, Kill, Rebuild, Skip, Pick, Publish, Check, Finish
  <1>11. Snapshot \/ Simulate \/ SimulateShort \/ SimulateFails \/ PauseRun => UNCHANGED runs
    BY DEF Snapshot, Simulate, SimulateShort, SimulateFails, PauseRun
  <1>12. "pin" \in Lanes /\ "sim" \in Lanes
    BY DEF Lanes
  <1> QED
    BY <1>2, <1>3, <1>5, <1>6, <1>8, <1>9, <1>10, <1>11, <1>12
       DEF Next, PinSteps, SimSteps, LaneStep

\* The same for the chain's directories.
ChainRunsKept == \A j \in F!Jobs \cup F!JobsOf("trials") : Kept(fruns[j], fruns'[j])

LEMMA ChainStores ==
    ASSUME ChainInv, NEW j \in F!Jobs \cup F!JobsOf("trials"),
           NEW d \in 1 .. (Len(fruns[j]) + 1), NEW tool \in Nat,
           ~Refuses(RunAt(fruns[j], d), tool), ~Skips(RunAt(fruns[j], d), tool),
           fruns' = [fruns EXCEPT ![j] = Stored(@, d, Begun(tool))]
    PROVE  ChainRunsKept
  <1> PICK D : D = F!Jobs \cup F!JobsOf("trials")
    OBVIOUS
  <1> DEFINE t == Stored(fruns[j], d, Begun(tool))
  <1>1. fruns \in [D -> Seq(Run)] /\ fruns[j] \in Seq(Run)
    BY ChainTyped
  <1>2. Kept(fruns[j], t)
    BY <1>1, StoringKeeps
  <1>3. fruns' = [fruns EXCEPT ![j] = t]
    OBVIOUS
  <1> HIDE DEF t
  <1>4. fruns'[j] = t /\ \A i \in D \ {j} : fruns'[i] = fruns[i]
    BY <1>1, <1>3
  <1>5. \A i \in D \ {j} : Kept(fruns[i], fruns'[i])
    BY <1>4 DEF Kept
  <1> QED
    BY <1>2, <1>4, <1>5 DEF ChainRunsKept

LEMMA ChainEnding ==
    ASSUME ChainInv, NEW j \in F!Jobs \cup F!JobsOf("trials"), NEW d \in DOMAIN fruns[j],
           fruns[j][d].manifest = "running", NEW r \in Run, fruns' = [fruns EXCEPT ![j][d] = r]
    PROVE  ChainRunsKept
  <1> PICK D : D = F!Jobs \cup F!JobsOf("trials")
    OBVIOUS
  <1>1. fruns \in [D -> Seq(Run)] /\ j \in D
    BY ChainTyped
  <1>2. \A i \in D : Kept(fruns[i], fruns'[i])
    BY <1>1, EndingKeeps
  <1> QED
    BY <1>2 DEF ChainRunsKept

\* What a run ends with is a run.
LEMMA EndedRun ==
    ASSUME ChainInv, NEW j \in F!Jobs \cup F!JobsOf("trials"), NEW d \in DOMAIN fruns[j],
           NEW end \in Ends
    PROVE  Ended(fruns[j][d], end, FALSE) \in Run
  <1>1. fruns[j] \in Seq(Run)
    BY ChainTyped
  <1>2. fruns[j][d] \in Run /\ FALSE \in BOOLEAN
    BY <1>1
  <1> QED
    BY <1>2, Manifests

\* A child of a campaign ends.
LEMMA ChildKeepsRuns ==
    ASSUME ChainInv, NEW c \in F!Campaigns, proc[c].pc = "child", NEW end \in Ends
    PROVE  fruns' = F!ChildRun(c, end) => ChainRunsKept
  <1> PICK j : j = F!Job(c)
    OBVIOUS
  <1>1. j \in F!Jobs /\ ChainInHand(c)
    BY ChainHolding
  <1>2. ASSUME j \in Preparations, fruns' = F!ChildRun(c, end)
        PROVE  ChainRunsKept
    BY <1>2 DEF F!ChildRun, ChainRunsKept, Kept
  <1>3. ASSUME j \notin Preparations, fruns' = F!ChildRun(c, end)
        PROVE  ChainRunsKept
    <2> PICK d : d = frows[j].dir
      OBVIOUS
    <2> DEFINE r == Ended(fruns[j][d], end, FALSE)
    <2>1. fruns' = [fruns EXCEPT ![j][d] = r]
      BY <1>3, SameRecords DEF F!ChildRun
    <2>2. d \in DOMAIN fruns[j] /\ fruns[j][d].manifest = "running"
      BY <1>1, <1>3 DEF ChainInHand
    <2>3. j \in F!Jobs \cup F!JobsOf("trials")
      BY <1>1
    <2>4. r \in Run
      BY <2>2, <2>3, EndedRun
    <2> HIDE DEF r
    <2> QED
      BY <2>1, <2>2, <2>3, <2>4, ChainEnding
  <1> QED
    BY <1>2, <1>3

LEMMA ChainKeepsRuns ==
    ASSUME ChainInv, F!Steps \/ F!Resume
    PROVE  ChainRunsKept
  <1>1. CASE UNCHANGED fruns
    BY <1>1 DEF ChainRunsKept, Kept
  <1>2. build["pin"] \in Nat
    BY ChainTyped
  <1>3. ASSUME NEW c \in F!Campaigns, F!Launch(c)
        PROVE  ChainRunsKept
    <2> PICK j : j = F!Job(c)
      OBVIOUS
    <2> DEFINE d == frows[j].dir
               tool == build["pin"]
    <2>1. j \in F!Jobs /\ ChainInHand(c) /\ proc[c].pc = "launch"
      BY <1>3, ChainHolding DEF F!Launch, F!At
    <2>2. j \notin Preparations => d \in 1 .. (Len(fruns[j]) + 1)
      BY <2>1 DEF ChainInHand
    <2>3. \/ UNCHANGED fruns
          \/ /\ j \notin Preparations
             /\ ~Refuses(RunAt(fruns[j], d), tool) /\ ~Skips(RunAt(fruns[j], d), tool)
             /\ fruns' = [fruns EXCEPT ![j] = Stored(@, d, Begun(tool))]
      BY <1>3, SameRecords DEF F!Launch
    <2> QED
      BY <1>1, <1>2, <2>1, <2>2, <2>3, ChainStores
  <1>4. ASSUME NEW c \in F!Campaigns, F!ChildEnds(c)
        PROVE  ChainRunsKept
    BY <1>4, ChildKeepsRuns DEF F!ChildEnds, F!At, Ends
  <1>5. ASSUME NEW c \in F!Campaigns, F!ChildFails(c)
        PROVE  ChainRunsKept
    <2>1. PICK end \in {"limited", "failed"} : fruns' = F!ChildRun(c, end)
      BY <1>5 DEF F!ChildFails
    <2> QED
      BY <1>5, <2>1, ChildKeepsRuns DEF F!ChildFails, F!At, Ends
  <1>6. CASE F!Repeat
    <2> PICK j : j = F!Job("trials")
      OBVIOUS
    <2>1. /\ proc["trials"].pc = "pick" /\ proc["trials"].n <= Len(F!Order("trials"))
      BY <1>6 DEF F!Repeat, F!At, F!More
    <2>2. j \in F!JobsOf("trials") /\ fruns[j] \in Seq(Run)
      BY <2>1, TrialHolding
    <2>3. \/ UNCHANGED fruns
          \/ /\ ~Refuses(RunAt(fruns[j], 1), build["pin"]) /\ ~Skips(RunAt(fruns[j], 1), build["pin"])
             /\ fruns' = [fruns EXCEPT ![j] = Stored(@, 1, Begun(build["pin"]))]
      BY <1>6, SameRecords DEF F!Repeat
    <2>4. 1 \in 1 .. (Len(fruns[j]) + 1)
      BY <2>2
    <2> QED
      BY <1>1, <1>2, <2>2, <2>3, <2>4, ChainStores
  <1>7. ASSUME NEW end \in Ends, F!RepeatEnds(end)
        PROVE  ChainRunsKept
    <2> PICK j : j = F!Job("trials")
      OBVIOUS
    <2> DEFINE r == Ended(fruns[j][1], end, FALSE)
    <2>1. proc["trials"].pc = "child" /\ fruns' = [fruns EXCEPT ![j][1] = r]
      BY <1>7, SameRecords DEF F!RepeatEnds, F!At
    <2>2. j \in F!JobsOf("trials") /\ 1 \in DOMAIN fruns[j] /\ fruns[j][1].manifest = "running"
      BY <2>1, TrialHolding DEF ChainInv, TrialInHand
    <2>3. r \in Run
      BY <1>7, <2>2, EndedRun
    <2> HIDE DEF r
    <2> QED
      BY <2>1, <2>2, <2>3, ChainEnding
  <1>8. CASE F!RepeatFails
    BY <1>7, <1>8, SameRecords DEF F!RepeatFails
  <1>9. \A c \in F!Campaigns : F!Skip(c) \/ F!Pick(c) \/ F!Check(c) \/ F!Publish(c) \/ F!Finish(c)
           \/ F!PublishFails(c) \/ F!Interrupt(c) => UNCHANGED fruns
    BY DEF F!Skip, F!Pick, F!Check, F!Publish, F!Finish, F!PublishFails, F!Interrupt
  <1>10. \A s \in F!Services : F!StartWaiting(s) \/ F!Kill(s) \/ F!Stopped(s) => UNCHANGED fruns
    BY DEF F!StartWaiting, F!Kill, F!Stopped
  <1>11. F!StartFidelity \/ F!AwaitTrials \/ F!WaitForMemory \/ F!AwaitFidelity \/ F!RepeatsDone
           \/ F!Resume \/ (\E hold \in BOOLEAN : F!StartStage2(hold)) => UNCHANGED fruns
    BY DEF F!StartFidelity, F!AwaitTrials, F!WaitForMemory, F!AwaitFidelity, F!RepeatsDone,
           F!Resume, F!StartStage2
  <1>12. "complete" \in Ends /\ "trials" \in F!Services /\ "resume" \in F!Services
    BY ChainOrders DEF Ends
  <1> QED
    BY <1>1, <1>3, <1>4, <1>5, <1>6, <1>7, <1>8, <1>9, <1>10, <1>11, <1>12
       DEF F!Steps, F!CampaignSteps, F!TrialSteps

\* A job that is held is neither picked, nor in anybody's hand.
LEMMA HoldStays ==
    ASSUME ChainInv, F!Steps \/ F!Resume
    PROVE  F!HoldKept
  <1>1. CASE UNCHANGED <<held, frows>>
    BY <1>1 DEF F!HoldKept
  <1>2. ASSUME NEW hold \in BOOLEAN, F!StartStage2(hold)
        PROVE  F!HoldKept
    BY <1>2 DEF F!StartStage2, F!Hold, F!HoldKept
  <1>3. ASSUME NEW c \in F!Campaigns, UNCHANGED held, NEW x, frows' = [frows EXCEPT ![F!Job(c)] = x],
               \/ proc[c].pc \in {"launch", "child", "check", "publish"}
               \/ proc[c].pc = "pick" /\ proc[c].n <= Len(F!Order(c)) /\ ~F!Passed(c)
        PROVE  F!HoldKept
    <2>1. held => F!Job(c) \notin Threaded
      <3>1. CASE c = "fidelity"
        BY <1>3, <3>1, ChainHolding, ChainAssumption
      <3>2. CASE c = "stage2" /\ proc[c].pc = "pick"
        BY <1>3, <3>2 DEF F!Passed
      <3>3. CASE c = "stage2" /\ proc[c].pc # "pick"
        BY <1>3, <3>3 DEF ChainInv, ChainInHand
      <3> QED
        BY <3>1, <3>2, <3>3, ChainOrders
    <2>2. \A j \in Threaded : j \in F!Jobs
      BY ChainAssumption, ChainOrders
    <2> QED
      BY <1>3, <2>1, <2>2, ChainTyped DEF F!HoldKept
  <1>4. ASSUME NEW c \in F!Campaigns, NEW how, F!Aborts(c, how), UNCHANGED held,
               proc[c].pc \in {"launch", "child", "check", "publish"}
        PROVE  F!HoldKept
    <2>1. \E x : frows' = [frows EXCEPT ![F!Job(c)] = x]
      BY <1>4 DEF F!Aborts
    <2> QED
      BY <1>3, <1>4, <2>1
  <1>5. ASSUME NEW c \in F!Campaigns,
               F!Launch(c) \/ F!ChildFails(c) \/ F!Check(c) \/ F!PublishFails(c) \/ F!Interrupt(c)
        PROVE  F!HoldKept
    <2>1. /\ proc[c].pc \in {"launch", "child", "check", "publish"} /\ UNCHANGED held
          /\ \/ UNCHANGED frows
             \/ \E how : F!Aborts(c, how)
             \/ \E x : frows' = [frows EXCEPT ![F!Job(c)] = x]
      BY <1>5 DEF F!Launch, F!ChildFails, F!Check, F!PublishFails, F!Interrupt, F!At
    <2> QED
      BY <1>1, <1>3, <1>4, <2>1
  <1>6. ASSUME NEW c \in F!Campaigns, F!Pick(c)
        PROVE  F!HoldKept
    <2>1. /\ proc[c].pc = "pick" /\ proc[c].n <= Len(F!Order(c)) /\ ~F!Passed(c) /\ UNCHANGED held
          /\ \E x : frows' = [frows EXCEPT ![F!Job(c)] = x]
      BY <1>6 DEF F!Pick, F!At, F!More
    <2> QED
      BY <1>3, <2>1
  <1>7. \A c \in F!Campaigns : F!Skip(c) \/ F!ChildEnds(c) \/ F!Publish(c) \/ F!Finish(c)
           => UNCHANGED <<held, frows>>
    BY DEF F!Skip, F!ChildEnds, F!Publish, F!Finish
  <1>8. \A s \in F!Services : F!StartWaiting(s) \/ F!Kill(s) \/ F!Stopped(s)
           => UNCHANGED <<held, frows>>
    BY DEF F!StartWaiting, F!Kill, F!Stopped
  <1>9. F!StartFidelity \/ F!AwaitTrials \/ F!WaitForMemory \/ F!AwaitFidelity \/ F!RepeatsDone
           \/ F!Repeat \/ F!RepeatFails \/ F!RepeatEnds("complete") \/ F!Resume
           => UNCHANGED <<held, frows>>
    BY DEF F!StartFidelity, F!AwaitTrials, F!WaitForMemory, F!AwaitFidelity, F!RepeatsDone,
           F!Repeat, F!RepeatFails, F!RepeatEnds, F!Resume
  <1>10. "trials" \in F!Services /\ "resume" \in F!Services
    BY ChainOrders
  <1> QED
    BY <1>1, <1>2, <1>5, <1>6, <1>7, <1>8, <1>9, <1>10 DEF F!Steps, F!CampaignSteps, F!TrialSteps

--------------------------------------------------------------------------------
(* The campaigns together.                                                    *)

CampaignInv == LaneInv /\ ChainInv /\ Measured

LEMMA LanesBegin ==
    ASSUME Init
    PROVE  LaneInv
  <1>1. <<>> \in Seq(Run) /\ <<>> \in Seq(Sim) /\ 1 \in Nat
    OBVIOUS
  <1>2. LaneTypes
    BY <1>1, Idles DEF Init, LaneTypes
  <1>3. \A l \in Lanes : lane[l].pc = "off"
    BY Idles DEF Init
  <1>4. \A l \in Lanes : Placed(l) /\ InHand(l)
    BY <1>3 DEF Placed, InHand
  <1>5. \A j \in Jobs : rows[j].state = "queued" /\ rows[j].snap = FALSE
    BY DEF Init, NoRow
  <1>6. \A j \in Jobs : LaneOf(j) = "sim" => j \in Elements(SimJobs)
    BY DEF Jobs, LaneOf
  <1>7. \A j \in Jobs : Filed(j)
    BY <1>5, <1>6 DEF Filed, Init
  <1> QED
    BY <1>2, <1>4, <1>7 DEF LaneInv

LEMMA ChainBegins ==
    ASSUME F!Init, LaneTypes
    PROVE  ChainInv
  <1>1. <<>> \in Seq(Run) /\ 0 \in Nat /\ FALSE \in BOOLEAN
    OBVIOUS
  <1>2. F!Queued \in ChainRow /\ F!Queued.state = "queued"
    BY <1>1 DEF F!Queued, ChainRow
  <1>3. F!Off \in ChainState /\ F!Off.pc = "off"
    BY <1>1 DEF F!Off, ChainState
  <1>4. build["pin"] \in Nat
    BY DEF LaneTypes, Lanes
  <1>5. ChainTypes
    BY <1>1, <1>2, <1>3, <1>4 DEF F!Init, ChainTypes
  <1>6. /\ \A c \in F!Services : proc[c].pc = "off"
        /\ \A c \in F!Campaigns : fstatus[c] = "absent"
        /\ \A j \in F!Jobs : frows[j].state = "queued"
    BY <1>2, <1>3 DEF F!Init
  <1>7. \A c \in F!Services : ChainPlaced(c)
    BY <1>6 DEF ChainPlaced
  <1>8. \A c \in F!Campaigns : ChainInHand(c)
    BY <1>6, ChainOrders DEF ChainInHand
  <1>9. FidelityBehind /\ TrialInHand /\ TrialsBehind /\ Concluded
    BY <1>6, ChainOrders DEF FidelityBehind, TrialInHand, TrialsBehind, Concluded
  <1>10. \A j \in F!Jobs : ChainFiled(j)
    BY <1>6 DEF ChainFiled
  <1> QED
    BY <1>5, <1>7, <1>8, <1>9, <1>10, ChainOrders DEF ChainInv

LEMMA CampaignsBegin == CInit => CampaignInv
  <1> SUFFICES ASSUME CInit
               PROVE  CampaignInv
    OBVIOUS
  <1>1. LaneInv
    BY LanesBegin DEF CInit
  <1>2. ChainInv
    BY <1>1, ChainBegins DEF CInit, LaneInv
  <1>3. lane["sim"].pc = "off"
    BY Idles DEF CInit, Init, Lanes
  <1> QED
    BY <1>1, <1>2, <1>3 DEF CampaignInv, Measured

\* No lane changes what is in use.
LEMMA SameServices ==
    ASSUME Next
    PROVE  UNCHANGED services
  BY DEF Next, Start, DiskFull, Interrupt, Kill, Rebuild, PinSteps, SimSteps, LaneStep, Skip, Pick,
         Publish, Prepare, Check, Finish, LaunchPin, LaunchSim, Collect, CollectFails, Snapshot,
         Simulate, SimulateShort, SimulateFails, PauseRun, AtSim

LEMMA LanesRest ==
    ASSUME LaneInv, UNCHANGED vars
    PROVE  LaneInv'
  <1>1. LaneTypes'
    BY DEF LaneInv, LaneTypes, vars
  <1>2. ASSUME NEW l \in Lanes
        PROVE  (Placed(l) /\ InHand(l))'
    <2>1. Placed(l) /\ InHand(l) /\ UNCHANGED <<lane, rows, runs, sims>>
      BY DEF LaneInv, vars
    <2>2. Job(l)' = Job(l)
      BY <2>1 DEF Job, Order
    <2> QED
      BY <2>1, <2>2 DEF Placed, InHand, Directory, Order
  <1> QED
    BY <1>1, <1>2, "sim" \in Lanes, OnlyTheLane DEF Lanes, vars

\* Of the lanes the chain sees the tool only.
LEMMA ChainRests ==
    ASSUME ChainInv, LaneTypes', UNCHANGED fvars
    PROVE  ChainInv'
  <1>1. UNCHANGED <<fstatus, frows, held, fruns, proc>>
    BY DEF fvars
  <1>2. build'["pin"] \in Nat
    BY DEF LaneTypes, Lanes
  <1>3. ChainTypes'
    BY <1>1, <1>2 DEF ChainInv, ChainTypes
  <1>4. \A c \in F!Services : F!Job(c)' = F!Job(c)
    BY <1>1 DEF F!Job, F!Order
  <1>5. \A c \in F!Campaigns : ChainPlaced(c)' /\ ChainInHand(c)'
    <2> TAKE c \in F!Campaigns
    <2>1. ChainPlaced(c) /\ ChainInHand(c)
      BY DEF ChainInv
    <2>2. F!Job(c)' = F!Job(c) /\ c \in F!Services
      BY <1>4, ChainOrders
    <2>3. ChainPlaced(c)'
      BY <1>1, <2>1 DEF ChainPlaced
    <2> QED
      BY <1>1, <2>1, <2>2, <2>3 DEF ChainInHand
  <1>6. ChainPlaced("trials")'
    BY <1>1 DEF ChainInv, ChainPlaced
  <1>7. FidelityBehind' /\ TrialInHand'
    BY <1>1, <1>4, ChainOrders DEF ChainInv, FidelityBehind, TrialInHand
  <1>8. TrialsBehind' /\ Concluded'
    BY <1>1 DEF ChainInv, TrialsBehind, TrialsComplete, Concluded
  <1>9. \A j \in F!Jobs : ChainFiled(j)'
    BY <1>1 DEF ChainInv, ChainFiled
  <1> QED
    BY <1>3, <1>5, <1>6, <1>7, <1>8, <1>9 DEF ChainInv

\* What has been measured stays; a lane that resume_sim has not started is off.
LEMMA MeasuredStays ==
    ASSUME Measured, ChainInv, ChainRunsKept, UNCHANGED services,
           "resume" \in services /\ lane["sim"].pc = "off" => lane'["sim"].pc = "off"
    PROVE  Measured'
  <1> SUFFICES ASSUME "resume" \in services, lane'["sim"].pc # "off",
                      NEW j \in F!JobsOf("fidelity") \ Preparations
               PROVE  \E d \in DOMAIN fruns'[j] : fruns'[j][d].manifest = "complete"
    BY DEF Measured
  <1>1. PICK d \in DOMAIN fruns[j] : fruns[j][d].manifest = "complete"
    BY DEF Measured
  <1>2. d \in DOMAIN fruns'[j] /\ fruns'[j][d] = fruns[j][d]
    BY <1>1, ChainOrders DEF ChainRunsKept, Kept
  <1> QED
    BY <1>1, <1>2

\* resume_sim believes the word "complete", rightly.
LEMMA MeasuredNow ==
    ASSUME ChainInv, fstatus["fidelity"] = "complete", UNCHANGED fruns
    PROVE  Measured'
  <1>1. \A j \in F!JobsOf("fidelity") : frows[j].state = "complete" /\ j \in F!Jobs
    BY ChainOrders DEF ChainInv, Concluded
  <1>2. \A j \in F!JobsOf("fidelity") \ Preparations :
           frows[j].dir \in DOMAIN fruns[j] /\ fruns[j][frows[j].dir].manifest = "complete"
    BY <1>1 DEF ChainInv, ChainFiled
  <1> QED
    BY <1>2 DEF Measured

LEMMA LanesStepKeeps ==
    ASSUME CampaignInv, LanesStep
    PROVE  CampaignInv' /\ ChainRunsKept /\ CompleteKept /\ F!HoldKept
  <1>1. LaneInv /\ ChainInv /\ Measured /\ Next /\ SimLeftAlone
    BY DEF CampaignInv, LanesStep
  <1>2. UNCHANGED fvars /\ UNCHANGED <<fruns, held, frows>>
    BY DEF LanesStep, fvars
  <1>3. LaneInv' /\ CompleteKept
    BY <1>1, LaneStepKeeps, LanesKeepRuns
  <1>4. ChainInv'
    BY <1>1, <1>2, <1>3, ChainRests DEF LaneInv
  <1>5. ChainRunsKept /\ F!HoldKept
    BY <1>2 DEF ChainRunsKept, Kept, F!HoldKept
  <1>6. Measured'
    BY <1>1, <1>5, SameServices, MeasuredStays DEF SimLeftAlone
  <1> QED
    BY <1>3, <1>4, <1>5, <1>6 DEF CampaignInv

LEMMA NothingMoves ==
    ASSUME UNCHANGED vars
    PROVE  CompleteKept /\ UNCHANGED services /\ UNCHANGED build /\ UNCHANGED lane
  BY DEF vars, CompleteKept

LEMMA ChainOnlyKeeps ==
    ASSUME CampaignInv, ChainStep
    PROVE  CampaignInv' /\ ChainRunsKept /\ CompleteKept /\ F!HoldKept
  <1>1. LaneInv /\ ChainInv /\ Measured /\ UNCHANGED vars /\ F!Steps
    BY DEF CampaignInv, ChainStep, Chain
  <1>2. ChainInv' /\ ChainRunsKept /\ F!HoldKept
    BY <1>1, ChainStepKeeps, ChainKeepsRuns, HoldStays, NothingMoves
  <1>3. LaneInv' /\ CompleteKept
    BY <1>1, LanesRest, NothingMoves
  <1>4. Measured'
    BY <1>1, <1>2, MeasuredStays, NothingMoves
  <1> QED
    BY <1>2, <1>3, <1>4 DEF CampaignInv

LEMMA ResumeKeeps ==
    ASSUME CampaignInv, Resume
    PROVE  CampaignInv' /\ ChainRunsKept /\ CompleteKept /\ F!HoldKept
  <1>1. LaneInv /\ ChainInv /\ F!Resume
    BY DEF CampaignInv, Resume
  <1>2. UNCHANGED vars \/ Start("sim", TRUE)
    BY DEF Resume
  <1>3. LaneInv' /\ CompleteKept /\ UNCHANGED build
    <2>1. CASE UNCHANGED vars
      BY <1>1, <2>1, LanesRest, NothingMoves
    <2>2. CASE Start("sim", TRUE)
      <3>1. "sim" \in Lanes /\ UNCHANGED <<runs, build>>
        BY <2>2 DEF Start, Lanes
      <3> QED
        BY <1>1, <2>2, <3>1, StartKeeps DEF CompleteKept
    <2> QED
      BY <1>2, <2>1, <2>2
  <1>4. ChainInv' /\ ChainRunsKept /\ F!HoldKept
    BY <1>1, <1>3, ChainStepKeeps, ChainKeepsRuns, HoldStays
  <1>5. Measured'
    BY <1>1, MeasuredNow DEF F!Resume
  <1> QED
    BY <1>3, <1>4, <1>5 DEF CampaignInv

LEMMA CampaignStep ==
    CampaignInv /\ [CNext]_allVars
      => CampaignInv' /\ ChainRunsKept /\ CompleteKept /\ F!HoldKept
  <1> SUFFICES ASSUME CampaignInv, [CNext]_allVars
               PROVE  CampaignInv' /\ ChainRunsKept /\ CompleteKept /\ F!HoldKept
    OBVIOUS
  <1>1. CASE UNCHANGED allVars
    <2>1. /\ UNCHANGED vars /\ UNCHANGED fvars
          /\ UNCHANGED <<fruns, held, frows>>
      BY <1>1 DEF allVars, vars, fvars
    <2>2. LaneInv' /\ CompleteKept /\ UNCHANGED <<services, lane>>
      BY <2>1, LanesRest, NothingMoves DEF CampaignInv
    <2>3. ChainInv'
      BY <2>1, <2>2, ChainRests DEF CampaignInv, LaneInv
    <2>4. ChainRunsKept /\ F!HoldKept
      BY <2>1 DEF ChainRunsKept, Kept, F!HoldKept
    <2>5. Measured'
      BY <2>2, <2>4, MeasuredStays DEF CampaignInv
    <2> QED
      BY <2>2, <2>3, <2>4, <2>5 DEF CampaignInv
  <1>2. CASE CNext
    BY <1>2, LanesStepKeeps, ChainOnlyKeeps, ResumeKeeps DEF CNext
  <1> QED
    BY <1>1, <1>2

LEMMA CampaignInvariant == CSpec => []CampaignInv
  <1>1. CampaignInv /\ [CNext]_allVars => CampaignInv'
    BY CampaignStep
  <1> QED
    BY CampaignsBegin, <1>1, PTL DEF CSpec

--------------------------------------------------------------------------------
(* The theorems.                                                              *)

(***************************************************************************)
(* Whatever is killed, stopped, rebuilt or left half done, and however      *)
(* often: a job that a lane's status file calls complete has a complete     *)
(* collection of the very tool its record names, with its analysis, or a    *)
(* simulation that reached the end of its region                            *)
(* (revalidation_campaign.py, main).                                        *)
(***************************************************************************)
THEOREM LanesVerified == CSpec => []Verified
  <1>1. LaneInv => Verified
    <2> SUFFICES ASSUME LaneInv, NEW j \in Jobs, rows[j].state = "complete"
                 PROVE  IF LaneOf(j) = "sim" THEN sims[j][rows[j].dir].roi
                        ELSE LET r == runs[j][rows[j].dir]
                             IN  /\ r.manifest = "complete" /\ r.tool = rows[j].tool
                                 /\ j \in Analysed => rows[j].analysed /\ ~r.gaps
      BY DEF Verified
    <2> QED
      BY DEF LaneInv, Filed
  <1> QED
    BY <1>1, CampaignInvariant, PTL DEF CampaignInv

(***************************************************************************)
(* What the campaigns read of each other is true: a campaign whose status   *)
(* says complete has completed every job and drawn its figure, the          *)
(* publishers are pointed to complete collections only, stage 2 touches no  *)
(* job before all repetition controls are complete, and resume_sim starts   *)
(* no simulation before the whole fidelity campaign has been measured       *)
(* (run_fidelity_campaign.py, run_pin_fidelity_stage2.py,                   *)
(* resume_sim_after_fidelity.py; publish_fidelity.py,                       *)
(* publish_pin_stage2.py).                                                  *)
(***************************************************************************)
THEOREM CampaignsTruthful == CSpec => []Truthful
  <1>1. ChainInv => F!Truthful
    <2> SUFFICES ASSUME ChainInv
                 PROVE  F!Truthful
      OBVIOUS
    <2>1. ASSUME NEW j \in F!Jobs \ Preparations, frows[j].state = "complete"
          PROVE  \A jobs : j \in jobs => <<j, frows[j].dir>> \in F!CompleteIn(jobs)
      <3>1. frows[j].dir \in DOMAIN fruns[j] /\ fruns[j][frows[j].dir].manifest = "complete"
        BY <2>1 DEF ChainInv, ChainFiled
      <3> PICK d : d = frows[j].dir
        OBVIOUS
      <3>2. <<j, d>> \in {<<j, e>> : e \in {x \in DOMAIN fruns[j] : fruns[j][x].manifest = "complete"}}
        BY <3>1
      <3> QED
        BY <3>2 DEF F!CompleteIn
    <2>2. (\E j \in F!JobsOf("stage2") : frows[j].state # "queued") =>
             \A j \in F!JobsOf("trials") : F!RunAt(fruns[j], 1).manifest = "complete"
      BY SameRecords DEF ChainInv, TrialsBehind, TrialsComplete, RunAt
    <2>3. \A c \in F!Campaigns : fstatus[c] = "complete" =>
             \A j \in F!JobsOf(c) : frows[j].state = "complete"
      BY DEF ChainInv, Concluded
    <2>4. F!Sources \subseteq F!Scored \cup F!CompleteIn(F!JobsOf("stage2"))
      <3>1. F!CompleteIn(F!JobsOf("trials")) \subseteq F!Scored
        BY DEF F!CompleteIn, F!Scored
      <3>2. ASSUME NEW j \in F!Jobs \ Preparations, frows[j].state = "complete"
            PROVE  <<j, frows[j].dir>> \in F!Scored \cup F!CompleteIn(F!JobsOf("stage2"))
        <4>1. CASE j \in F!JobsOf("fidelity")
          BY <2>1, <3>2, <4>1 DEF F!Scored
        <4>2. CASE j \in F!JobsOf("stage2")
          BY <2>1, <3>2, <4>2
        <4> QED
          BY <4>1, <4>2, ChainOrders
      <3> QED
        BY <3>1, <3>2 DEF F!Sources
    <2>5. fstatus["fidelity"] = "complete" => F!FigureDue
      <3> SUFFICES ASSUME fstatus["fidelity"] = "complete", NEW j \in Datasets
                   PROVE  F!Selected(j) # {}
        BY DEF F!FigureDue
      <3>1. j \in F!JobsOf("fidelity") /\ j \in F!Jobs \ Preparations
        BY ChainAssumption, ChainOrders
      <3>2. frows[j].state = "complete"
        BY <2>3, <3>1, ChainOrders
      <3>3. <<j, frows[j].dir>> \in F!Scored
        BY <2>1, <3>1, <3>2 DEF F!Scored
      <3> QED
        BY <3>2, <3>3 DEF F!Selected
    <2> QED
      BY <2>2, <2>3, <2>4, <2>5 DEF F!Truthful
  <1>2. CampaignInv => Truthful
    BY <1>1 DEF CampaignInv, Measured, Truthful
  <1> QED
    BY <1>2, CampaignInvariant, PTL

(***************************************************************************)
(* No step of any of the services overwrites or loses a complete            *)
(* collection, whichever of them wrote it ("Never overwrites historical     *)
(* results", revalidation_campaign.py:2; run_paired.py).                    *)
(***************************************************************************)
THEOREM CompleteStaysComplete == CSpec => ResultsKept
  <1>1. CampaignInv /\ [CNext]_allVars => [CompleteKept /\ F!CompleteKept]_allVars
    <2> SUFFICES ASSUME CampaignInv, [CNext]_allVars
                 PROVE  CompleteKept /\ F!CompleteKept
      OBVIOUS
    <2>1. CompleteKept /\ ChainRunsKept
      BY CampaignStep
    <2>2. DOMAIN fruns = F!Jobs \cup F!JobsOf("trials")
      BY ChainTyped DEF CampaignInv
    <2> QED
      BY <2>1, <2>2 DEF ChainRunsKept, Kept, F!CompleteKept
  <1> QED
    BY <1>1, CampaignInvariant, PTL DEF CSpec, ResultsKept

(***************************************************************************)
(* After --single-thread-only has been given once, no later invocation of   *)
(* stage 2, with or without it, touches a job with several threads          *)
(* (run_pin_fidelity_stage2.py:29, 58).                                     *)
(***************************************************************************)
THEOREM HoldSurvivesRestarts == CSpec => HeldStaysQueued
  <1>1. CampaignInv /\ [CNext]_allVars => [F!HoldKept]_allVars
    BY CampaignStep
  <1> QED
    BY <1>1, CampaignInvariant, PTL DEF CSpec, HeldStaysQueued
=============================================================================
