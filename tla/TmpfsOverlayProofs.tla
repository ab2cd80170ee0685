---------------------------- MODULE TmpfsOverlayProofs ----------------------------
(***************************************************************************)
(* The staging area keeps whole files whole, for every set of groups and   *)
(* tracks.  Whether a file may be read, kept or removed is decided by who  *)
(* answers for it: a file and an entry of the active set exist only while  *)
(* some stream is on its way to remove them.                               *)
(***************************************************************************)
EXTENDS TmpfsOverlay, TLAPS

Streams == [at : Places, hash : Hash \cup {None},
            path : {"none", "tmp", "cache"}, again : BOOLEAN]

Handles(g, h) == stream[g].hash = h

\* Where a stream will come to its deactivate.
Responsible == {"opening", "playing", "crashed", "asking", "failed"}

\* A stream has a track from activate on.
OnTrack == \A g \in Group : ~At(g, "off") => stream[g].hash \in Hash

\* The history variable knows of every track that is shared.
SharingIsShared == Sharing \subseteq shared

\* A file is in the tmpfs only while a stream writes it or will remove it.
FileHasOwner(h) ==
  \E g \in Group : /\ Handles(g, h)
                   /\ stream[g].at \in Responsible \cup {"writing", "marking", "unlinking"}
PresentIsOwned == \A h \in Present \ broken : FileHasOwner(h)

\* A track is marked only while a stream will unmark it.
MarkHasOwner(h) ==
  \E g \in Group : /\ Handles(g, h)
                   /\ \/ stream[g].at \in Responsible \cup {"unmarking"}
                      \/ At(g, "unlinking") /\ h \in Present
ActiveIsOwned == \A h \in active \ broken : MarkHasOwner(h)

\* Nobody else writes the file of a copy that is alone.
CopyIsOwn ==
  \A g \in Group : Alone(stream[g].hash) =>
    /\ At(g, "writing") => writer[stream[g].hash] = g
    /\ At(g, "marking") => stream[g].hash \in Whole

\* Nobody else removes a file between the look and the unlink.
UnlinkFinds ==
  \A g \in Group : At(g, "unlinking") /\ stream[g].hash \notin Present
                     => stream[g].hash \in shared

OverlayInv ==
  /\ TypeOK
  /\ OnTrack
  /\ SharingIsShared
  /\ PresentIsOwned
  /\ ActiveIsOwned
  /\ CopyIsOwn
  /\ UnlinkFinds
  /\ WholeFile
  /\ MarkedIsWhole
  /\ StopsEnd
-----------------------------------------------------------------------------------
(* What a step of one group does to the streams *)

Others(g) == \A k \in Group \ {g} : stream'[k] = stream[k]

\* The stream of g is afterwards as r says.
Becomes(g, s, h, p, b) ==
  /\ stream' \in [Group -> Streams]
  /\ stream'[g].at = s /\ stream'[g].hash = h /\ stream'[g].path = p /\ stream'[g].again = b
  /\ Others(g)

(* The ways to change a stream.                                            *)
LEMMA StreamBecomes ==
  ASSUME TypeOK, NEW g \in Group
  PROVE  /\ \A s \in Places :
              Go(g, s) => Becomes(g, s, stream[g].hash, stream[g].path, stream[g].again)
         /\ \A p \in {"tmp", "cache"} :
              Play(g, p) => Becomes(g, "opening", stream[g].hash, p, stream[g].again)
         /\ End(g) => Becomes(g, "off", None, "none", FALSE)
         /\ \A h \in Hash, s \in Places, p \in {"tmp", "cache"} :
              Begin(g, h, s, p) => Becomes(g, s, h, p, FALSE)
<1>1. stream \in [Group -> Streams] /\ stream[g] \in Streams
  BY DEF TypeOK, Streams
<1>2. ASSUME NEW s \in Places, Go(g, s)
      PROVE  Becomes(g, s, stream[g].hash, stream[g].path, stream[g].again)
  BY <1>1, <1>2 DEF Go, Becomes, Others, Streams
<1>3. ASSUME NEW p \in {"tmp", "cache"}, Play(g, p)
      PROVE  Becomes(g, "opening", stream[g].hash, p, stream[g].again)
  BY <1>1, <1>3 DEF Play, Becomes, Others, Streams, Places
<1>4. ASSUME End(g) PROVE Becomes(g, "off", None, "none", FALSE)
  BY <1>1, <1>4 DEF End, Off, Becomes, Others, Streams, Places
<1>5. ASSUME NEW h \in Hash, NEW s \in Places, NEW p \in {"tmp", "cache"}, Begin(g, h, s, p)
      PROVE  Becomes(g, s, h, p, FALSE)
  BY <1>1, <1>5 DEF Begin, Becomes, Others, Streams
<1> QED
  BY <1>2, <1>3, <1>4, <1>5

\* The history variable of Next, and the one that only grows.
Recorded == shared' = shared \cup Sharing' /\ broken \subseteq broken'

(* A track that is still alone was alone, and has one stream.              *)
LEMMA AloneBefore ==
  ASSUME Recorded
  PROVE  /\ \A h : Alone(h)' => Alone(h)
         /\ \A h \in Hash : Alone(h)' => \A g, k \in Group :
              stream'[g].hash = h /\ stream'[k].hash = h => g = k
         /\ SharingIsShared'
         /\ shared \subseteq shared'
  BY DEF Recorded, Alone, Sharing, SharingIsShared

LEMMA TypeKeeps ==
  ASSUME TypeOK, Recorded, source' \subseteq Hash, active' \subseteq Hash, broken' \subseteq Hash,
         tmp' \in [Hash -> {"none", "part", "whole"}], writer' \in [Hash -> Group \cup {None}],
         stream' \in [Group -> Streams]
  PROVE  TypeOK'
  BY DEF TypeOK, Streams, Recorded, Sharing
-----------------------------------------------------------------------------------
(* The kinds of steps that leave the files alone *)

(* A stream that will deactivate goes on, and does not get a file to play  *)
(* from the tmpfs that it neither had nor found marked.                    *)
LEMMA MoveKeeps ==
  ASSUME OverlayInv, Recorded, NEW g \in Group,
         UNCHANGED <<source, tmp, writer, active, broken>>,
         NEW s \in Responsible, NEW p \in {"none", "tmp", "cache"}, NEW b \in BOOLEAN,
         stream[g].at \in Responsible,
         Becomes(g, s, stream[g].hash, p, b),
         s \in {"opening", "playing"} /\ p = "tmp" =>
           \/ stream[g].at \in {"opening", "playing"} /\ stream[g].path = "tmp"
           \/ stream[g].hash \in active
  PROVE  OverlayInv'
<1>1. /\ TypeOK /\ OnTrack /\ PresentIsOwned /\ ActiveIsOwned /\ CopyIsOwn
      /\ UnlinkFinds /\ WholeFile /\ MarkedIsWhole /\ StopsEnd /\ SharingIsShared
  BY DEF OverlayInv
<1>2. /\ stream' \in [Group -> Streams] /\ Others(g)
      /\ stream'[g].at = s /\ stream'[g].hash = stream[g].hash /\ stream'[g].path = p
  BY DEF Becomes
<1>3. Whole' = Whole /\ Present' = Present
  BY DEF Whole, Present
<1>4. TypeOK'
  BY <1>1, <1>2, TypeKeeps DEF TypeOK
<1>5. OnTrack'
  BY <1>1, <1>2 DEF OnTrack, At, Others, Responsible
<1>6. PresentIsOwned'
  BY <1>1, <1>2, <1>3 DEF PresentIsOwned, FileHasOwner, Handles, Others
<1>7. ActiveIsOwned'
  <2> SUFFICES ASSUME NEW h \in active \ broken PROVE MarkHasOwner(h)'
    BY DEF ActiveIsOwned
  <2>1. PICK k \in Group : /\ Handles(k, h)
                           /\ \/ stream[k].at \in Responsible \cup {"unmarking"}
                              \/ At(k, "unlinking") /\ h \in Present
    BY <1>1 DEF ActiveIsOwned, MarkHasOwner
  <2> QED  BY <1>2, <1>3, <2>1 DEF MarkHasOwner, Handles, At, Others
<1>8. CopyIsOwn'
  BY <1>1, <1>2, <1>3, AloneBefore DEF CopyIsOwn, At, Others, Responsible
<1>9. UnlinkFinds'
  BY <1>1, <1>2, <1>3, AloneBefore DEF UnlinkFinds, At, Others, Responsible
<1>10. WholeFile'
  <2> SUFFICES ASSUME NEW k \in Group, stream'[k].at \in {"opening", "playing"},
                      stream'[k].path = "tmp", Alone(stream[k].hash)'
               PROVE  stream[k].hash \in Whole
    BY <1>2, <1>3 DEF WholeFile, Others
  <2>1. Alone(stream[k].hash)
    BY <1>2 DEF Alone, Others, Recorded
  <2>2. CASE k # g
    BY <1>1, <1>2, <2>1, <2>2 DEF WholeFile, Others
  <2>3. CASE k = g /\ stream[g].at \in {"opening", "playing"} /\ stream[g].path = "tmp"
    BY <1>1, <2>1, <2>3 DEF WholeFile
  <2>4. CASE k = g /\ stream[g].hash \in active
    <3>1. \A j \in Group : stream[j].hash = stream[g].hash => j = g
      BY <1>1, <2>1, <2>4 DEF SharingIsShared, Sharing, Alone, TypeOK
    <3>2. ~ \E j \in Group : At(j, "unmarking") /\ stream[j].hash = stream[g].hash
      BY <3>1 DEF At, Responsible
    <3> QED  BY <1>1, <2>1, <2>4, <3>2 DEF MarkedIsWhole
  <2> QED  BY <1>2, <2>2, <2>3, <2>4
<1>11. MarkedIsWhole'
  <2> SUFFICES ASSUME NEW h \in active, Alone(h)',
                      ~(\E k \in Group : At(k, "unmarking") /\ stream[k].hash = h)'
               PROVE  h \in Whole
    BY <1>3 DEF MarkedIsWhole
  <2>1. ~(\E k \in Group : At(k, "unmarking") /\ stream[k].hash = h)
    BY <1>2 DEF At, Others, Responsible
  <2> QED  BY <1>1, <2>1, AloneBefore DEF MarkedIsWhole
<1>12. StopsEnd'
  BY <1>1, <1>2, AloneBefore DEF StopsEnd, At, Others, Responsible
<1> QED
  BY <1>4, <1>5, <1>6, <1>7, <1>8, <1>9, <1>10, <1>11, <1>12, AloneBefore DEF OverlayInv

(* A stream is over, and answers for nothing that stays.                   *)
LEMMA EndKeeps ==
  ASSUME OverlayInv, Recorded, NEW g \in Group, ~At(g, "off"),
         source' = source, tmp' = tmp, broken' \subseteq Hash,
         Becomes(g, "off", None, "none", FALSE),
         NEW h \in Hash, stream[g].hash = h,
         active' \in {active, active \ {h}},
         writer' \in [Hash -> Group \cup {None}],
         \A x \in Hash : writer'[x] = writer[x] \/ x \in broken',
         \/ h \in broken'
         \/ writer' = writer /\ At(g, "copying")
         \/ writer' = writer /\ At(g, "writing") /\ h \notin Present
         \/ writer' = writer /\ At(g, "unmarking") /\ h \notin active',
         At(g, "unmarking") => h \notin active'
  PROVE  OverlayInv'
<1>1. /\ TypeOK /\ OnTrack /\ PresentIsOwned /\ ActiveIsOwned /\ CopyIsOwn
      /\ UnlinkFinds /\ WholeFile /\ MarkedIsWhole /\ StopsEnd /\ SharingIsShared
  BY DEF OverlayInv
<1>2. /\ stream' \in [Group -> Streams] /\ Others(g)
      /\ stream'[g].at = "off" /\ stream'[g].hash = None
  BY DEF Becomes
<1>3. /\ Whole' = Whole /\ Present' = Present /\ active' \subseteq active
      /\ broken \subseteq broken' /\ shared \subseteq shared'
  BY DEF Whole, Present, Recorded
<1>4. TypeOK'
  BY <1>1, <1>2, TypeKeeps DEF TypeOK
<1>5. OnTrack'
  BY <1>1, <1>2 DEF OnTrack, At, Others
<1>6. PresentIsOwned'
  <2> SUFFICES ASSUME NEW x \in Present, x \notin broken' PROVE FileHasOwner(x)'
    BY <1>3 DEF PresentIsOwned
  <2>1. PICK k \in Group : /\ Handles(k, x)
                           /\ stream[k].at \in Responsible \cup {"writing", "marking", "unlinking"}
    BY <1>1, <1>3 DEF PresentIsOwned, FileHasOwner
  <2>2. k # g
    BY <2>1 DEF Handles, At, Responsible
  <2> QED  BY <1>2, <2>1, <2>2 DEF FileHasOwner, Handles, Others
<1>7. ActiveIsOwned'
  <2> SUFFICES ASSUME NEW x \in active', x \notin broken' PROVE MarkHasOwner(x)'
    BY DEF ActiveIsOwned
  <2>1. PICK k \in Group : /\ Handles(k, x)
                           /\ \/ stream[k].at \in Responsible \cup {"unmarking"}
                              \/ At(k, "unlinking") /\ x \in Present
    BY <1>1, <1>3 DEF ActiveIsOwned, MarkHasOwner
  <2>2. k # g
    BY <2>1 DEF Handles, At, Responsible
  <2> QED  BY <1>2, <1>3, <2>1, <2>2 DEF MarkHasOwner, Handles, At, Others
<1>8. CopyIsOwn'
  <2> SUFFICES ASSUME NEW k \in Group, k # g, Alone(stream[k].hash)'
               PROVE  /\ At(k, "writing") => writer'[stream[k].hash] = k
                      /\ At(k, "marking") => stream[k].hash \in Whole
    BY <1>2, <1>3 DEF CopyIsOwn, At, Others
  <2>1. Alone(stream[k].hash) /\ stream[k].hash \notin broken'
    BY <1>2, <1>3 DEF Alone, Others
  <2>2. ~At(k, "off") => stream[k].hash \in Hash
    BY <1>1 DEF OnTrack
  <2> QED  BY <1>1, <2>1, <2>2 DEF CopyIsOwn, At
<1>9. UnlinkFinds'
  BY <1>1, <1>2, <1>3 DEF UnlinkFinds, At, Others
<1>10. WholeFile'
  <2> SUFFICES ASSUME NEW k \in Group, k # g, stream[k].at \in {"opening", "playing"},
                      stream[k].path = "tmp", Alone(stream[k].hash)'
               PROVE  stream[k].hash \in Whole
    BY <1>2, <1>3 DEF WholeFile, Others
  <2>1. Alone(stream[k].hash)
    BY <1>2, <1>3 DEF Alone, Others
  <2> QED  BY <1>1, <2>1 DEF WholeFile
<1>11. MarkedIsWhole'
  <2> SUFFICES ASSUME NEW x \in active', Alone(x)',
                      ~(\E k \in Group : stream'[k].at = "unmarking" /\ stream'[k].hash = x)
               PROVE  x \in Whole
    BY <1>3 DEF MarkedIsWhole, At
  <2>1. ~(\E k \in Group : At(k, "unmarking") /\ stream[k].hash = x)
    BY <1>2 DEF At, Others
  <2> QED  BY <1>1, <1>3, <2>1, AloneBefore DEF MarkedIsWhole
<1>12. StopsEnd'
  BY <1>1, <1>2, <1>3 DEF StopsEnd, At, Others
<1> QED
  BY <1>4, <1>5, <1>6, <1>7, <1>8, <1>9, <1>10, <1>11, <1>12, AloneBefore DEF OverlayInv
-----------------------------------------------------------------------------------
(* The operations *)

(* activate.  A track that no stream handles has no file, unless something *)
(* was broken off; so a file that is found is of a shared track.           *)
LEMMA ActivateKeeps ==
  ASSUME OverlayInv, Recorded, NEW g \in Group, NEW h \in Hash, Activate(g, h)
  PROVE  OverlayInv'
<1>1. /\ TypeOK /\ OnTrack /\ PresentIsOwned /\ ActiveIsOwned /\ CopyIsOwn
      /\ UnlinkFinds /\ WholeFile /\ MarkedIsWhole /\ StopsEnd /\ SharingIsShared
  BY DEF OverlayInv
<1>2. /\ At(g, "off")
      /\ source' = source /\ tmp' = tmp /\ writer' = writer /\ active' = active /\ broken' = broken
  BY DEF Activate, files
<1>3. PICK s \in {"opening", "copying"}, p \in {"tmp", "cache"} :
        /\ Becomes(g, s, h, p, FALSE)
        /\ s = "opening" /\ p = "tmp" => h \in Present
  <2>1. \A s \in {"opening", "copying"}, p \in {"tmp", "cache"} :
          Begin(g, h, s, p) => Becomes(g, s, h, p, FALSE)
    BY <1>1, StreamBecomes DEF Places
  <2> QED  BY <2>1 DEF Activate
<1>4. /\ stream' \in [Group -> Streams] /\ Others(g)
      /\ stream'[g].at = s /\ stream'[g].hash = h /\ stream'[g].path = p
  BY <1>3 DEF Becomes
<1>5. Whole' = Whole /\ Present' = Present
  BY <1>2 DEF Whole, Present
<1>6. Alone(h)' => h \notin Present
  <2> SUFFICES ASSUME Alone(h)', h \in Present PROVE FALSE
    OBVIOUS
  <2>1. PICK k \in Group : stream[k].hash = h /\ ~At(k, "off")
    BY <1>1, AloneBefore DEF PresentIsOwned, FileHasOwner, Handles, Alone, At, Responsible
  <2>2. k # g /\ stream'[k].hash = h /\ stream'[g].hash = h
    BY <1>2, <1>4, <2>1 DEF Others
  <2> QED  BY <2>2, AloneBefore
<1>7. TypeOK'
  BY <1>1, <1>2, <1>4, TypeKeeps DEF TypeOK
<1>8. OnTrack'
  BY <1>1, <1>4 DEF OnTrack, At, Others
<1>9. PresentIsOwned'
  <2> SUFFICES ASSUME NEW x \in Present \ broken PROVE FileHasOwner(x)'
    BY <1>2, <1>5 DEF PresentIsOwned
  <2>1. PICK k \in Group : /\ Handles(k, x)
                           /\ stream[k].at \in Responsible \cup {"writing", "marking", "unlinking"}
    BY <1>1 DEF PresentIsOwned, FileHasOwner
  <2>2. k # g
    BY <1>2, <2>1 DEF At, Responsible
  <2> QED  BY <1>4, <2>1, <2>2 DEF FileHasOwner, Handles, Others
<1>10. ActiveIsOwned'
  <2> SUFFICES ASSUME NEW x \in active \ broken PROVE MarkHasOwner(x)'
    BY <1>2 DEF ActiveIsOwned
  <2>1. PICK k \in Group : /\ Handles(k, x)
                           /\ \/ stream[k].at \in Responsible \cup {"unmarking"}
                              \/ At(k, "unlinking") /\ x \in Present
    BY <1>1 DEF ActiveIsOwned, MarkHasOwner
  <2>2. k # g
    BY <1>2, <2>1 DEF At, Responsible
  <2> QED  BY <1>4, <1>5, <2>1, <2>2 DEF MarkHasOwner, Handles, At, Others
<1>11. CopyIsOwn'
  BY <1>1, <1>2, <1>4, <1>5, AloneBefore DEF CopyIsOwn, At, Others
<1>12. UnlinkFinds'
  BY <1>1, <1>4, <1>5, AloneBefore DEF UnlinkFinds, At, Others
<1>13. WholeFile'
  BY <1>1, <1>3, <1>4, <1>5, <1>6, AloneBefore DEF WholeFile, Others
<1>14. MarkedIsWhole'
  BY <1>1, <1>2, <1>4, <1>5, AloneBefore DEF MarkedIsWhole, At, Others
<1>15. StopsEnd'
  BY <1>1, <1>4, AloneBefore DEF StopsEnd, At, Others
<1> QED
  BY <1>7, <1>8, <1>9, <1>10, <1>11, <1>12, <1>13, <1>14, <1>15, AloneBefore DEF OverlayInv

(* The copy truncates its target: a marked or played file is its target    *)
(* only if groups share the track.                                         *)
LEMMA OpenCopyKeeps ==
  ASSUME OverlayInv, Recorded, NEW g \in Group, OpenCopy(g)
  PROVE  OverlayInv'
<1>1. /\ TypeOK /\ OnTrack /\ PresentIsOwned /\ ActiveIsOwned /\ CopyIsOwn
      /\ UnlinkFinds /\ WholeFile /\ MarkedIsWhole /\ StopsEnd /\ SharingIsShared
  BY DEF OverlayInv
<1> DEFINE h == stream[g].hash
<1>2. /\ At(g, "copying") /\ h \in Hash
      /\ source' = source /\ active' = active /\ broken' = broken
  BY <1>1 DEF OpenCopy, OnTrack, At
<1>3. CASE h \notin source
  <2>1. Becomes(g, "off", None, "none", FALSE) /\ tmp' = tmp /\ writer' = writer
    BY <1>1, <1>3, StreamBecomes DEF OpenCopy, files
  <2>2. /\ ~At(g, "off") /\ ~At(g, "unmarking") /\ broken' \subseteq Hash
        /\ writer' \in [Hash -> Group \cup {None}]
    BY <1>1, <1>2, <2>1 DEF At, TypeOK
  <2> QED  BY <1>2, <2>1, <2>2, EndKeeps
<1>4. CASE h \in source
  <2>1. /\ Becomes(g, "writing", h, stream[g].path, stream[g].again)
        /\ tmp' = [tmp EXCEPT ![h] = "part"]
        /\ writer' = [writer EXCEPT ![h] = g]
    BY <1>1, <1>4, StreamBecomes DEF OpenCopy, Places
  <2>2. /\ stream' \in [Group -> Streams] /\ Others(g)
        /\ stream'[g].at = "writing" /\ stream'[g].hash = h
    BY <2>1 DEF Becomes
  <2>3. /\ Present' = Present \cup {h} /\ Whole' = Whole \ {h}
        /\ writer'[h] = g /\ \A x \in Hash \ {h} : writer'[x] = writer[x]
    BY <1>1, <1>2, <2>1 DEF TypeOK, Present, Whole
  <2>4. \A k \in Group : k # g /\ Alone(stream[k].hash)' => stream[k].hash # h
    BY <1>2, <2>2, AloneBefore DEF Others
  <2>5. TypeOK'
    BY <1>1, <1>2, <2>1, <2>2, TypeKeeps DEF TypeOK
  <2>6. OnTrack'
    BY <1>1, <1>2, <2>2 DEF OnTrack, At, Others
  <2> HIDE DEF h
  <2>7. PresentIsOwned'
    <3> SUFFICES ASSUME NEW x \in Present \cup {h}, x \notin broken PROVE FileHasOwner(x)'
      BY <1>2, <2>3 DEF PresentIsOwned
    <3>1. CASE x = h
      BY <2>2, <3>1 DEF FileHasOwner, Handles
    <3>2. CASE x # h
      <4>1. PICK k \in Group : /\ Handles(k, x)
                               /\ stream[k].at \in Responsible \cup {"writing", "marking", "unlinking"}
        BY <1>1, <3>2 DEF PresentIsOwned, FileHasOwner
      <4>2. k # g
        BY <1>2, <4>1 DEF At, Responsible
      <4> QED  BY <2>2, <4>1, <4>2 DEF FileHasOwner, Handles, Others
    <3> QED  BY <3>1, <3>2
  <2>8. ASSUME NEW x \in active \ broken
        PROVE  \E k \in Group \ {g} : /\ stream[k].hash = x
                                      /\ \/ stream[k].at \in Responsible \cup {"unmarking"}
                                         \/ At(k, "unlinking") /\ x \in Present
    BY <1>1, <1>2 DEF ActiveIsOwned, MarkHasOwner, Handles, At, Responsible
  <2>9. ActiveIsOwned'
    BY <1>2, <2>2, <2>3, <2>8 DEF ActiveIsOwned, MarkHasOwner, Handles, At, Others
  <2>10. CopyIsOwn'
    <3> SUFFICES ASSUME NEW k \in Group, k # g, Alone(stream[k].hash)'
                 PROVE  /\ At(k, "writing") => writer'[stream[k].hash] = k
                        /\ At(k, "marking") => stream[k].hash \in Whole'
      BY <2>2, <2>3 DEF CopyIsOwn, At, Others
    <3>1. Alone(stream[k].hash)
      BY <2>2 DEF Alone, Others, Recorded
    <3>2. stream[k].hash # h
      BY <2>4
    <3>3. ~At(k, "off") => stream[k].hash \in Hash
      BY <1>1 DEF OnTrack
    <3> QED  BY <1>1, <2>3, <3>1, <3>2, <3>3 DEF CopyIsOwn, At
  <2>11. UnlinkFinds'
    BY <1>1, <2>2, <2>3, AloneBefore DEF UnlinkFinds, At, Others
  <2>12. WholeFile'
    <3> SUFFICES ASSUME NEW k \in Group, k # g, stream[k].at \in {"opening", "playing"},
                        stream[k].path = "tmp", Alone(stream[k].hash)'
                 PROVE  stream[k].hash \in Whole'
      BY <2>2, <2>3 DEF WholeFile, Others
    <3>1. Alone(stream[k].hash)
      BY <2>2 DEF Alone, Others, Recorded
    <3> QED  BY <1>1, <2>3, <2>4, <3>1 DEF WholeFile
  <2>13. MarkedIsWhole'
    <3> SUFFICES ASSUME NEW x \in active, Alone(x)',
                        ~(\E k \in Group : stream'[k].at = "unmarking" /\ stream'[k].hash = x)
                 PROVE  x \in Whole'
      BY <1>2 DEF MarkedIsWhole, At
    <3>1. Alone(x) /\ x \notin broken /\ x \in Hash
      BY <1>1, AloneBefore DEF Alone, TypeOK
    <3>2. x # h
      <4>1. PICK k \in Group \ {g} : stream[k].hash = x
        BY <2>8, <3>1
      <4> QED  BY <2>2, <3>1, <4>1, AloneBefore DEF Others
    <3>3. ~(\E k \in Group : At(k, "unmarking") /\ stream[k].hash = x)
      BY <1>2, <2>2 DEF At, Others
    <3> QED  BY <1>1, <2>3, <3>1, <3>2, <3>3 DEF MarkedIsWhole
  <2>14. StopsEnd'
    BY <1>1, <2>2, AloneBefore DEF StopsEnd, At, Others
  <2> QED
    BY <2>5, <2>6, <2>7, <2>9, <2>10, <2>11, <2>12, <2>13, <2>14, AloneBefore DEF OverlayInv
<1> QED
  BY <1>3, <1>4

(* A copy ends: its target is whole, if nobody else opened it since.       *)
LEMMA EndCopyKeeps ==
  ASSUME OverlayInv, Recorded, NEW g \in Group, EndCopy(g)
  PROVE  OverlayInv'
<1>1. /\ TypeOK /\ OnTrack /\ PresentIsOwned /\ ActiveIsOwned /\ CopyIsOwn
      /\ UnlinkFinds /\ WholeFile /\ MarkedIsWhole /\ StopsEnd /\ SharingIsShared
  BY DEF OverlayInv
<1> DEFINE h == stream[g].hash
<1>2. /\ At(g, "writing") /\ h \in Hash
      /\ source' = source /\ active' = active /\ broken' = broken
  BY <1>1 DEF EndCopy, OnTrack, At
<1>3. CASE h \notin Present
  <2>1. Becomes(g, "off", None, "none", FALSE) /\ tmp' = tmp /\ writer' = writer
    BY <1>1, <1>3, StreamBecomes DEF EndCopy, files
  <2>2. /\ ~At(g, "off") /\ ~At(g, "unmarking") /\ broken' \subseteq Hash
        /\ writer' \in [Hash -> Group \cup {None}]
    BY <1>1, <1>2, <2>1 DEF At, TypeOK
  <2> QED  BY <1>2, <1>3, <2>1, <2>2, EndKeeps
<1>4. CASE h \in Present
  <2>1. Becomes(g, "marking", h, stream[g].path, stream[g].again)
    BY <1>1, <1>4, StreamBecomes DEF EndCopy, Places
  <2>2. /\ stream' \in [Group -> Streams] /\ Others(g)
        /\ stream'[g].at = "marking" /\ stream'[g].hash = h
    BY <2>1 DEF Becomes
  <2>3. /\ \/ /\ tmp' = [tmp EXCEPT ![h] = "whole"]
              /\ writer' = [writer EXCEPT ![h] = None]
           \/ /\ tmp' = tmp /\ writer' = writer
        /\ writer[h] = g => tmp' = [tmp EXCEPT ![h] = "whole"]
    BY <1>4 DEF EndCopy, files
  <2>4. /\ Present' = Present /\ Whole \subseteq Whole'
        /\ writer[h] = g => h \in Whole'
        /\ \A x \in Hash \ {h} : writer'[x] = writer[x]
    BY <1>1, <1>2, <1>4, <2>3 DEF TypeOK, Present, Whole
  <2>5. \A k \in Group : k # g /\ Alone(stream[k].hash)' => stream[k].hash # h
    BY <1>2, <2>2, AloneBefore DEF Others
  <2>6. TypeOK'
    BY <1>1, <1>2, <2>2, <2>3, TypeKeeps DEF TypeOK
  <2>7. OnTrack'
    BY <1>1, <1>2, <2>2 DEF OnTrack, At, Others
  <2>8. PresentIsOwned'
    <3> SUFFICES ASSUME NEW x \in Present \ broken PROVE FileHasOwner(x)'
      BY <1>2, <2>4 DEF PresentIsOwned
    <3>1. PICK k \in Group : /\ Handles(k, x)
                             /\ stream[k].at \in Responsible \cup {"writing", "marking", "unlinking"}
      BY <1>1 DEF PresentIsOwned, FileHasOwner
    <3> QED  BY <2>2, <3>1 DEF FileHasOwner, Handles, Others
  <2>9. ActiveIsOwned'
    <3> SUFFICES ASSUME NEW x \in active \ broken PROVE MarkHasOwner(x)'
      BY <1>2 DEF ActiveIsOwned
    <3>1. PICK k \in Group : /\ Handles(k, x)
                             /\ \/ stream[k].at \in Responsible \cup {"unmarking"}
                                \/ At(k, "unlinking") /\ x \in Present
      BY <1>1 DEF ActiveIsOwned, MarkHasOwner
    <3>2. k # g
      BY <1>2, <3>1 DEF At, Responsible
    <3> QED  BY <2>2, <2>4, <3>1, <3>2 DEF MarkHasOwner, Handles, At, Others
  <2> HIDE DEF h
  <2>10. CopyIsOwn'
    <3>1. h \notin shared' \cup broken' => h \in Whole'
      BY <1>1, <1>2, <2>4 DEF CopyIsOwn, h, Alone, Recorded
    <3>2. ASSUME NEW k \in Group, k # g, Alone(stream[k].hash)'
          PROVE  /\ At(k, "writing") => writer'[stream[k].hash] = k
                 /\ At(k, "marking") => stream[k].hash \in Whole'
      <4>1. Alone(stream[k].hash)
        BY <2>2, <3>2 DEF Alone, Others, Recorded
      <4>2. stream[k].hash # h
        BY <2>5, <3>2
      <4>3. ~At(k, "off") => stream[k].hash \in Hash
        BY <1>1 DEF OnTrack
      <4> QED  BY <1>1, <2>4, <4>1, <4>2, <4>3 DEF CopyIsOwn, At
    <3>3. ASSUME NEW k \in Group, Alone(stream[k].hash)'
          PROVE  /\ At(k, "writing")' => writer'[stream'[k].hash] = k
                 /\ At(k, "marking")' => stream'[k].hash \in Whole'
      <4>1. CASE k = g
        BY <2>2, <3>1, <3>3, <4>1 DEF At, Alone
      <4>2. CASE k # g
        BY <2>2, <3>2, <3>3, <4>2 DEF At, Others
      <4> QED  BY <4>1, <4>2
    <3> QED  BY <3>3 DEF CopyIsOwn
  <2>11. UnlinkFinds'
    BY <1>1, <2>2, <2>4, AloneBefore DEF UnlinkFinds, At, Others
  <2>12. WholeFile'
    <3> SUFFICES ASSUME NEW k \in Group, k # g, stream[k].at \in {"opening", "playing"},
                        stream[k].path = "tmp", Alone(stream[k].hash)'
                 PROVE  stream[k].hash \in Whole'
      BY <2>2 DEF WholeFile, Others
    <3>1. Alone(stream[k].hash)
      BY <2>2 DEF Alone, Others, Recorded
    <3> QED  BY <1>1, <2>4, <3>1 DEF WholeFile
  <2>13. MarkedIsWhole'
    <3> SUFFICES ASSUME NEW x \in active, Alone(x)',
                        ~(\E k \in Group : stream'[k].at = "unmarking" /\ stream'[k].hash = x)
                 PROVE  x \in Whole'
      BY <1>2 DEF MarkedIsWhole, At
    <3>1. ~(\E k \in Group : At(k, "unmarking") /\ stream[k].hash = x)
      BY <1>2, <2>2 DEF At, Others
    <3> QED  BY <1>1, <2>4, <3>1, AloneBefore DEF MarkedIsWhole
  <2>14. StopsEnd'
    BY <1>1, <2>2, AloneBefore DEF StopsEnd, At, Others
  <2> QED
    BY <2>6, <2>7, <2>8, <2>9, <2>10, <2>11, <2>12, <2>13, <2>14, AloneBefore DEF OverlayInv
<1> QED
  BY <1>3, <1>4

(* A copy that finds no space leaves a part, which counts as broken off.   *)
LEMMA NoSpaceKeeps ==
  ASSUME OverlayInv, Recorded, NEW g \in Group, NoSpace(g)
  PROVE  OverlayInv'
<1>1. /\ TypeOK /\ OnTrack /\ PresentIsOwned /\ ActiveIsOwned /\ CopyIsOwn
      /\ UnlinkFinds /\ WholeFile /\ MarkedIsWhole /\ StopsEnd /\ SharingIsShared
  BY DEF OverlayInv
<1> DEFINE h == stream[g].hash
<1>2. /\ At(g, "writing") /\ h \in Hash /\ broken' = broken \cup {h}
      /\ source' = source /\ active' = active /\ tmp' = tmp
      /\ writer' = [writer EXCEPT ![h] = IF writer[h] = g THEN None ELSE writer[h]]
  BY <1>1 DEF NoSpace, OnTrack, At, BreakOff
<1>3. Becomes(g, "off", None, "none", FALSE)
  BY <1>1, StreamBecomes DEF NoSpace
<1>4. /\ ~At(g, "off") /\ ~At(g, "unmarking") /\ broken' \subseteq Hash
      /\ writer' \in [Hash -> Group \cup {None}]
      /\ \A x \in Hash : writer'[x] = writer[x] \/ x \in broken'
  BY <1>1, <1>2 DEF At, TypeOK
<1> QED
  BY <1>2, <1>3, <1>4, EndKeeps

(* SADD follows the copy.                                                  *)
LEMMA MarkKeeps ==
  ASSUME OverlayInv, Recorded, NEW g \in Group, Mark(g)
  PROVE  OverlayInv'
<1>1. /\ TypeOK /\ OnTrack /\ PresentIsOwned /\ ActiveIsOwned /\ CopyIsOwn
      /\ UnlinkFinds /\ WholeFile /\ MarkedIsWhole /\ StopsEnd /\ SharingIsShared
  BY DEF OverlayInv
<1> DEFINE h == stream[g].hash
<1>2. /\ At(g, "marking") /\ h \in Hash /\ active' = active \cup {h}
      /\ source' = source /\ tmp' = tmp /\ writer' = writer /\ broken' = broken
  BY <1>1 DEF Mark, OnTrack, At, files
<1>3. Becomes(g, "opening", h, "tmp", stream[g].again)
  BY <1>1, StreamBecomes DEF Mark
<1>4. /\ stream' \in [Group -> Streams] /\ Others(g)
      /\ stream'[g].at = "opening" /\ stream'[g].hash = h
  BY <1>3 DEF Becomes
<1>5. Whole' = Whole /\ Present' = Present
  BY <1>2 DEF Whole, Present
<1>6. h \notin shared' \cup broken' => h \in Whole
  BY <1>1, <1>2 DEF CopyIsOwn, Alone, Recorded
<1>7. TypeOK'
  BY <1>1, <1>2, <1>4, TypeKeeps DEF TypeOK
<1>8. OnTrack'
  BY <1>1, <1>2, <1>4 DEF OnTrack, At, Others
<1>9. PresentIsOwned'
  <2> SUFFICES ASSUME NEW x \in Present \ broken PROVE FileHasOwner(x)'
    BY <1>2, <1>5 DEF PresentIsOwned
  <2>1. PICK k \in Group : /\ Handles(k, x)
                           /\ stream[k].at \in Responsible \cup {"writing", "marking", "unlinking"}
    BY <1>1 DEF PresentIsOwned, FileHasOwner
  <2> QED  BY <1>4, <2>1 DEF FileHasOwner, Handles, Others, Responsible
<1>10. ActiveIsOwned'
  <2> SUFFICES ASSUME NEW x \in active \cup {h}, x \notin broken PROVE MarkHasOwner(x)'
    BY <1>2 DEF ActiveIsOwned
  <2>1. CASE x = h
    BY <1>4, <2>1 DEF MarkHasOwner, Handles, Responsible
  <2>2. CASE x # h
    <3>1. PICK k \in Group : /\ Handles(k, x)
                             /\ \/ stream[k].at \in Responsible \cup {"unmarking"}
                                \/ At(k, "unlinking") /\ x \in Present
      BY <1>1, <2>2 DEF ActiveIsOwned, MarkHasOwner
    <3>2. k # g
      BY <1>2, <3>1 DEF At, Responsible
    <3> QED  BY <1>4, <1>5, <3>1, <3>2 DEF MarkHasOwner, Handles, At, Others
  <2> QED  BY <2>1, <2>2
<1> HIDE DEF h
<1>11. CopyIsOwn'
  <2> SUFFICES ASSUME NEW k \in Group, k # g, Alone(stream[k].hash)'
               PROVE  /\ At(k, "writing") => writer[stream[k].hash] = k
                      /\ At(k, "marking") => stream[k].hash \in Whole
    BY <1>2, <1>4, <1>5 DEF CopyIsOwn, At, Others
  <2>1. Alone(stream[k].hash)
    BY <1>4 DEF Alone, Others, Recorded
  <2> QED  BY <1>1, <2>1 DEF CopyIsOwn, At
<1>12. UnlinkFinds'
  BY <1>1, <1>4, <1>5, AloneBefore DEF UnlinkFinds, At, Others
<1>13. WholeFile'
  <2>1. ASSUME NEW k \in Group, stream'[k].at \in {"opening", "playing"},
               stream'[k].path = "tmp", Alone(stream[k].hash)'
        PROVE  stream'[k].hash \in Whole
    <3>1. CASE k = g
      BY <1>4, <1>6, <2>1, <3>1 DEF Alone
    <3>2. CASE k # g
      <4>1. Alone(stream[k].hash)
        BY <1>4, <2>1, <3>2 DEF Alone, Others, Recorded
      <4> QED  BY <1>1, <1>4, <2>1, <3>2, <4>1 DEF WholeFile, Others
    <3> QED  BY <3>1, <3>2
  <2> QED  BY <1>5, <2>1 DEF WholeFile
<1>14. MarkedIsWhole'
  <2> SUFFICES ASSUME NEW x \in active \cup {h}, Alone(x)',
                      ~(\E k \in Group : stream'[k].at = "unmarking" /\ stream'[k].hash = x)
               PROVE  x \in Whole
    BY <1>2, <1>5 DEF MarkedIsWhole, At
  <2>1. CASE x = h
    BY <1>6, <2>1 DEF Alone
  <2>2. CASE x # h
    <3>1. ~(\E k \in Group : At(k, "unmarking") /\ stream[k].hash = x)
      BY <1>2, <1>4 DEF At, Others
    <3> QED  BY <1>1, <2>2, <3>1, AloneBefore DEF MarkedIsWhole
  <2> QED  BY <2>1, <2>2
<1>15. StopsEnd'
  BY <1>1, <1>4, AloneBefore DEF StopsEnd, At, Others
<1> QED
  BY <1>7, <1>8, <1>9, <1>10, <1>11, <1>12, <1>13, <1>14, <1>15, AloneBefore DEF OverlayInv

(* start_stream gives up without a deactivate: what it copied stays, and   *)
(* counts as broken off; a recovery that gives up is stopped.              *)
LEMMA SpawnFailsKeeps ==
  ASSUME OverlayInv, Recorded, NEW g \in Group, SpawnFails(g)
  PROVE  OverlayInv'
<1>1. /\ TypeOK /\ OnTrack /\ PresentIsOwned /\ ActiveIsOwned /\ CopyIsOwn
      /\ UnlinkFinds /\ WholeFile /\ MarkedIsWhole /\ StopsEnd /\ SharingIsShared
  BY DEF OverlayInv
<1>2. /\ At(g, "opening") /\ stream[g].hash \in Hash
      /\ source' = source /\ tmp' = tmp /\ writer' = writer /\ active' = active
  BY <1>1 DEF SpawnFails, OnTrack, At, files
<1>3. CASE stream[g].again
  <2>1. /\ Becomes(g, "failed", stream[g].hash, stream[g].path, stream[g].again)
        /\ broken' = broken
    BY <1>1, <1>3, StreamBecomes DEF SpawnFails, Places
  <2>2. /\ stream[g].at \in Responsible /\ "failed" \in Responsible
        /\ stream[g].path \in {"none", "tmp", "cache"} /\ stream[g].again \in BOOLEAN
    BY <1>1, <1>2 DEF At, Responsible, TypeOK
  <2> QED  BY <1>2, <2>1, <2>2, MoveKeeps
<1>4. CASE ~stream[g].again
  <2>1. /\ Becomes(g, "off", None, "none", FALSE)
        /\ broken' = broken \cup {stream[g].hash}
    BY <1>1, <1>4, StreamBecomes DEF SpawnFails, BreakOff
  <2>2. /\ ~At(g, "off") /\ ~At(g, "unmarking") /\ broken' \subseteq Hash
        /\ writer' \in [Hash -> Group \cup {None}]
    BY <1>1, <1>2, <2>1 DEF At, TypeOK
  <2> QED  BY <1>2, <2>1, <2>2, EndKeeps
<1> QED
  BY <1>3, <1>4

(* FFmpeg opens its file or crashes, and is started again: from the tmpfs  *)
(* only if the track is marked.                                            *)
LEMMA PlayingKeeps ==
  ASSUME OverlayInv, Recorded, NEW g \in Group,
         OpenFile(g) \/ Crash(g) \/ AttemptRecovery(g) \/ IsActive(g)
  PROVE  OverlayInv'
<1>1. /\ TypeOK /\ OnTrack /\ PresentIsOwned /\ ActiveIsOwned /\ CopyIsOwn
      /\ UnlinkFinds /\ WholeFile /\ MarkedIsWhole /\ StopsEnd /\ SharingIsShared
  BY DEF OverlayInv
<1>2. UNCHANGED <<source, tmp, writer, active, broken>> /\ stream[g].at \in Responsible
  BY DEF OpenFile, Crash, AttemptRecovery, IsActive, files, At, Responsible
<1>3. /\ stream[g].path \in {"none", "tmp", "cache"} /\ stream[g].again \in BOOLEAN
      /\ "playing" \in Responsible /\ "crashed" \in Responsible /\ "opening" \in Responsible
      /\ "asking" \in Responsible /\ "failed" \in Responsible
  BY <1>1 DEF TypeOK, Responsible
<1>4. ASSUME NEW s \in {"playing", "crashed"}, At(g, "opening") \/ At(g, "playing"), Go(g, s)
      PROVE  OverlayInv'
  <2>1. Becomes(g, s, stream[g].hash, stream[g].path, stream[g].again)
    BY <1>1, <1>4, StreamBecomes DEF Places
  <2> QED  BY <1>2, <1>3, <1>4, <2>1, MoveKeeps DEF At
<1>5. CASE OpenFile(g)
  BY <1>4, <1>5 DEF OpenFile
<1>6. CASE Crash(g)
  BY <1>4, <1>6 DEF Crash
<1>7. CASE AttemptRecovery(g)
  <2>1. PICK s \in {"asking", "failed"} :
          stream' = [stream EXCEPT ![g].at = s, ![g].again = TRUE]
    BY <1>7 DEF AttemptRecovery
  <2>2. Becomes(g, s, stream[g].hash, stream[g].path, TRUE)
    BY <1>1, <2>1 DEF TypeOK, Becomes, Others, Streams, Places
  <2> QED  BY <1>2, <1>3, <2>2, MoveKeeps
<1>8. CASE IsActive(g)
  <2>1. PICK p \in {"tmp", "cache"} : Play(g, p) /\ (p = "tmp" => stream[g].hash \in active)
    BY <1>8 DEF IsActive
  <2>2. Becomes(g, "opening", stream[g].hash, p, stream[g].again)
    BY <1>1, <2>1, StreamBecomes
  <2> QED  BY <1>2, <1>3, <2>1, <2>2, MoveKeeps
<1> QED
  BY <1>5, <1>6, <1>7, <1>8

(* deactivate looks: it goes on to the unlink only of a file that is there. *)
LEMMA DeactivateKeeps ==
  ASSUME OverlayInv, Recorded, NEW g \in Group, Deactivate(g)
  PROVE  OverlayInv'
<1>1. /\ TypeOK /\ OnTrack /\ PresentIsOwned /\ ActiveIsOwned /\ CopyIsOwn
      /\ UnlinkFinds /\ WholeFile /\ MarkedIsWhole /\ StopsEnd /\ SharingIsShared
  BY DEF OverlayInv
<1>2. /\ stream[g].at \in {"opening", "playing", "failed"} /\ stream[g].hash \in Hash
      /\ source' = source /\ tmp' = tmp /\ writer' = writer
      /\ active' = active /\ broken' = broken
  BY <1>1 DEF Deactivate, OnTrack, At, files
<1>3. PICK s \in {"unlinking", "unmarking"} :
        /\ Becomes(g, s, stream[g].hash, stream[g].path, stream[g].again)
        /\ s = "unlinking" <=> stream[g].hash \in Present
  <2>1. PICK s \in {"unlinking", "unmarking"} :
          Go(g, s) /\ (s = "unlinking" <=> stream[g].hash \in Present)
    BY DEF Deactivate
  <2>2. s \in Places
    BY DEF Places
  <2> QED  BY <1>1, <2>1, <2>2, StreamBecomes
<1>4. /\ stream' \in [Group -> Streams] /\ Others(g)
      /\ stream'[g].at = s /\ stream'[g].hash = stream[g].hash
  BY <1>3 DEF Becomes
<1>5. Whole' = Whole /\ Present' = Present
  BY <1>2 DEF Whole, Present
<1>6. TypeOK'
  BY <1>1, <1>2, <1>4, TypeKeeps DEF TypeOK
<1>7. OnTrack'
  BY <1>1, <1>2, <1>4 DEF OnTrack, At, Others
<1>8. PresentIsOwned'
  <2> SUFFICES ASSUME NEW x \in Present \ broken PROVE FileHasOwner(x)'
    BY <1>2, <1>5 DEF PresentIsOwned
  <2>1. PICK k \in Group : /\ Handles(k, x)
                           /\ stream[k].at \in Responsible \cup {"writing", "marking", "unlinking"}
    BY <1>1 DEF PresentIsOwned, FileHasOwner
  <2>2. k = g => s = "unlinking"
    BY <1>3, <2>1 DEF Handles
  <2> QED  BY <1>4, <2>1, <2>2 DEF FileHasOwner, Handles, Others
<1>9. ActiveIsOwned'
  <2> SUFFICES ASSUME NEW x \in active \ broken PROVE MarkHasOwner(x)'
    BY <1>2 DEF ActiveIsOwned
  <2>1. PICK k \in Group : /\ Handles(k, x)
                           /\ \/ stream[k].at \in Responsible \cup {"unmarking"}
                              \/ At(k, "unlinking") /\ x \in Present
    BY <1>1 DEF ActiveIsOwned, MarkHasOwner
  <2>2. k = g => s = "unmarking" \/ x \in Present
    BY <1>3, <2>1 DEF Handles
  <2> QED  BY <1>4, <1>5, <2>1, <2>2 DEF MarkHasOwner, Handles, At, Others
<1>10. CopyIsOwn'
  BY <1>1, <1>2, <1>4, <1>5, AloneBefore DEF CopyIsOwn, At, Others
<1>11. UnlinkFinds'
  BY <1>1, <1>3, <1>4, <1>5, AloneBefore DEF UnlinkFinds, At, Others
<1>12. WholeFile'
  BY <1>1, <1>4, <1>5, AloneBefore DEF WholeFile, Others
<1>13. MarkedIsWhole'
  <2> SUFFICES ASSUME NEW x \in active, Alone(x)',
                      ~(\E k \in Group : stream'[k].at = "unmarking" /\ stream'[k].hash = x)
               PROVE  x \in Whole
    BY <1>2, <1>5 DEF MarkedIsWhole, At
  <2>1. ~(\E k \in Group : At(k, "unmarking") /\ stream[k].hash = x)
    BY <1>2, <1>4 DEF At, Others
  <2> QED  BY <1>1, <2>1, AloneBefore DEF MarkedIsWhole
<1>14. StopsEnd'
  BY <1>1, <1>4, AloneBefore DEF StopsEnd, At, Others
<1> QED
  BY <1>6, <1>7, <1>8, <1>9, <1>10, <1>11, <1>12, <1>13, <1>14, AloneBefore DEF OverlayInv

(* The file is gone; the stream goes on to unmark the track, or is stuck   *)
(* because another has removed the file.                                   *)
LEMMA UnlinkKeeps ==
  ASSUME OverlayInv, Recorded, NEW g \in Group, Unlink(g)
  PROVE  OverlayInv'
<1>1. /\ TypeOK /\ OnTrack /\ PresentIsOwned /\ ActiveIsOwned /\ CopyIsOwn
      /\ UnlinkFinds /\ WholeFile /\ MarkedIsWhole /\ StopsEnd /\ SharingIsShared
  BY DEF OverlayInv
<1>2. PICK h \in Hash : stream[g].hash = h
  BY <1>1 DEF Unlink, OnTrack, At
<1>3. /\ At(g, "unlinking")
      /\ tmp' = [tmp EXCEPT ![h] = "none"] /\ writer' = [writer EXCEPT ![h] = None]
      /\ source' = source /\ active' = active /\ broken' = broken
  BY <1>2 DEF Unlink
<1>4. PICK s \in {"unmarking", "stuck"} :
        /\ Becomes(g, s, h, stream[g].path, stream[g].again)
        /\ s = "unmarking" <=> h \in Present
  <2>1. PICK s \in {"unmarking", "stuck"} : Go(g, s) /\ (s = "unmarking" <=> h \in Present)
    BY <1>2 DEF Unlink
  <2>2. s \in Places
    BY DEF Places
  <2> QED  BY <1>1, <1>2, <2>1, <2>2, StreamBecomes
<1>5. /\ stream' \in [Group -> Streams] /\ Others(g)
      /\ stream'[g].at = s /\ stream'[g].hash = h
  BY <1>4 DEF Becomes
<1>6. /\ Whole' = Whole \ {h} /\ Present' = Present \ {h}
      /\ \A x \in Hash \ {h} : writer'[x] = writer[x]
  BY <1>1, <1>3 DEF TypeOK, Whole, Present
<1>7. \A k \in Group : k # g /\ stream[k].hash = h => h \in shared
  BY <1>1, <1>2 DEF SharingIsShared, Sharing
<1>8. h \notin Present => h \in shared
  BY <1>1, <1>2, <1>3 DEF UnlinkFinds
<1>9. TypeOK'
  BY <1>1, <1>3, <1>5, TypeKeeps DEF TypeOK
<1>10. OnTrack'
  BY <1>1, <1>5 DEF OnTrack, At, Others
<1>11. PresentIsOwned'
  <2> SUFFICES ASSUME NEW x \in Present \ broken, x # h PROVE FileHasOwner(x)'
    BY <1>3, <1>6 DEF PresentIsOwned
  <2>1. PICK k \in Group : /\ Handles(k, x)
                           /\ stream[k].at \in Responsible \cup {"writing", "marking", "unlinking"}
    BY <1>1 DEF PresentIsOwned, FileHasOwner
  <2>2. k # g
    BY <1>2, <2>1 DEF Handles
  <2> QED  BY <1>5, <2>1, <2>2 DEF FileHasOwner, Handles, Others
<1>12. ActiveIsOwned'
  <2> SUFFICES ASSUME NEW x \in active \ broken PROVE MarkHasOwner(x)'
    BY <1>3 DEF ActiveIsOwned
  <2>1. PICK k \in Group : /\ Handles(k, x)
                           /\ \/ stream[k].at \in Responsible \cup {"unmarking"}
                              \/ At(k, "unlinking") /\ x \in Present
    BY <1>1 DEF ActiveIsOwned, MarkHasOwner
  <2>2. CASE stream[k].at \in Responsible \cup {"unmarking"}
    <3>1. k # g
      BY <1>3, <2>2 DEF At, Responsible
    <3> QED  BY <1>5, <2>1, <2>2, <3>1 DEF MarkHasOwner, Handles, Others
  <2>3. CASE At(k, "unlinking") /\ x \in Present /\ x # h
    <3>1. k # g
      BY <1>2, <2>1, <2>3 DEF Handles
    <3> QED  BY <1>5, <1>6, <2>1, <2>3, <3>1 DEF MarkHasOwner, Handles, At, Others
  <2>4. CASE x \in Present /\ x = h
    BY <1>4, <1>5, <2>4 DEF MarkHasOwner, Handles
  <2> QED  BY <2>1, <2>2, <2>3, <2>4
<1>13. CopyIsOwn'
  <2> SUFFICES ASSUME NEW k \in Group, k # g, Alone(stream[k].hash)'
               PROVE  /\ At(k, "writing") => writer'[stream[k].hash] = k
                      /\ At(k, "marking") => stream[k].hash \in Whole'
    BY <1>5, <1>6 DEF CopyIsOwn, At, Others
  <2>1. Alone(stream[k].hash) /\ stream[k].hash # h
    BY <1>5, <1>7 DEF Alone, Others, Recorded
  <2>2. ~At(k, "off") => stream[k].hash \in Hash
    BY <1>1 DEF OnTrack
  <2> QED  BY <1>1, <1>6, <2>1, <2>2 DEF CopyIsOwn, At
<1>14. UnlinkFinds'
  <2> SUFFICES ASSUME NEW k \in Group, k # g, At(k, "unlinking"), stream[k].hash \notin Present'
               PROVE  stream[k].hash \in shared
    BY <1>5, AloneBefore DEF UnlinkFinds, At, Others
  <2>1. CASE stream[k].hash = h
    BY <1>7, <2>1
  <2>2. CASE stream[k].hash # h
    BY <1>1, <1>6, <2>2 DEF UnlinkFinds
  <2> QED  BY <2>1, <2>2
<1>15. WholeFile'
  <2> SUFFICES ASSUME NEW k \in Group, k # g, stream[k].at \in {"opening", "playing"},
                      stream[k].path = "tmp", Alone(stream[k].hash)'
               PROVE  stream[k].hash \in Whole'
    BY <1>5 DEF WholeFile, Others
  <2>1. Alone(stream[k].hash) /\ stream[k].hash # h
    BY <1>5, <1>7 DEF Alone, Others, Recorded
  <2> QED  BY <1>1, <1>6, <2>1 DEF WholeFile
<1>16. MarkedIsWhole'
  <2> SUFFICES ASSUME NEW x \in active, Alone(x)',
                      ~(\E k \in Group : stream'[k].at = "unmarking" /\ stream'[k].hash = x)
               PROVE  x \in Whole'
    BY <1>3 DEF MarkedIsWhole, At
  <2>1. Alone(x)
    BY AloneBefore
  <2>2. x # h
    BY <1>4, <1>5, <1>8, <2>1 DEF Alone
  <2>3. ~(\E k \in Group : At(k, "unmarking") /\ stream[k].hash = x)
    BY <1>3, <1>5 DEF At, Others
  <2> QED  BY <1>1, <1>6, <2>1, <2>2, <2>3 DEF MarkedIsWhole
<1>17. StopsEnd'
  BY <1>1, <1>4, <1>5, <1>8, AloneBefore DEF StopsEnd, At, Others
<1> QED
  BY <1>9, <1>10, <1>11, <1>12, <1>13, <1>14, <1>15, <1>16, <1>17, AloneBefore DEF OverlayInv

(* SREM ends the stop.                                                     *)
LEMMA UnmarkKeeps ==
  ASSUME OverlayInv, Recorded, NEW g \in Group, Unmark(g)
  PROVE  OverlayInv'
<1>1. /\ TypeOK /\ OnTrack /\ PresentIsOwned /\ ActiveIsOwned /\ CopyIsOwn
      /\ UnlinkFinds /\ WholeFile /\ MarkedIsWhole /\ StopsEnd /\ SharingIsShared
  BY DEF OverlayInv
<1>2. PICK h \in Hash : stream[g].hash = h
  BY <1>1 DEF Unmark, OnTrack, At
<1>3. /\ At(g, "unmarking") /\ active' = active \ {h}
      /\ source' = source /\ tmp' = tmp /\ writer' = writer /\ broken' = broken
      /\ Becomes(g, "off", None, "none", FALSE)
  BY <1>1, <1>2, StreamBecomes DEF Unmark, files
<1>4. /\ ~At(g, "off") /\ broken' \subseteq Hash /\ writer' \in [Hash -> Group \cup {None}]
  BY <1>1, <1>3 DEF At, TypeOK
<1> QED
  BY <1>2, <1>3, <1>4, EndKeeps

(* The cache below stores and removes files.                               *)
LEMMA CacheChangesKeeps ==
  ASSUME OverlayInv, Recorded, CacheChanges
  PROVE  OverlayInv'
<1>1. /\ TypeOK /\ OnTrack /\ PresentIsOwned /\ ActiveIsOwned /\ CopyIsOwn
      /\ UnlinkFinds /\ WholeFile /\ MarkedIsWhole /\ StopsEnd /\ SharingIsShared
  BY DEF OverlayInv
<1>2. /\ tmp' = tmp /\ writer' = writer /\ active' = active
      /\ stream' = stream /\ broken' = broken /\ source' \subseteq Hash
  BY <1>1 DEF CacheChanges, files, TypeOK
<1>3. Whole' = Whole /\ Present' = Present
  BY <1>2 DEF Whole, Present
<1>4. TypeOK'
  BY <1>1, <1>2, TypeKeeps DEF TypeOK, Streams
<1>5. OnTrack' /\ PresentIsOwned' /\ ActiveIsOwned'
  BY <1>1, <1>2, <1>3 DEF OnTrack, At, PresentIsOwned, FileHasOwner, Handles, ActiveIsOwned,
                          MarkHasOwner
<1>6. CopyIsOwn' /\ UnlinkFinds' /\ WholeFile'
  BY <1>1, <1>2, <1>3, AloneBefore DEF CopyIsOwn, At, UnlinkFinds, WholeFile
<1>7. MarkedIsWhole' /\ StopsEnd'
  BY <1>1, <1>2, <1>3, AloneBefore DEF MarkedIsWhole, At, StopsEnd
<1> QED
  BY <1>4, <1>5, <1>6, <1>7, AloneBefore DEF OverlayInv

(* After a restart of the process nobody answers for the files and marks   *)
(* it leaves.                                                              *)
LEMMA RestartKeeps ==
  ASSUME OverlayInv, Recorded, Restart
  PROVE  OverlayInv'
<1>1. /\ TypeOK /\ OnTrack /\ PresentIsOwned /\ ActiveIsOwned /\ CopyIsOwn
      /\ UnlinkFinds /\ WholeFile /\ MarkedIsWhole /\ StopsEnd /\ SharingIsShared
  BY DEF OverlayInv
<1>2. /\ stream' = [g \in Group |-> Off] /\ writer' = [h \in Hash |-> None]
      /\ broken' = broken \cup ({stream[g].hash : g \in Group} \ {None})
      /\ source' = source /\ tmp' = tmp /\ active' = active
  BY DEF Restart, BreakOff
<1>3. \A g \in Group : stream'[g].at = "off" /\ stream'[g].hash = None
  BY <1>2 DEF Off
<1>4. Whole' = Whole /\ Present' = Present
  BY <1>2 DEF Whole, Present
<1>5. \A h \in Hash : h \notin broken' => h \notin broken /\ ~(\E g \in Group : Handles(g, h))
  BY <1>2, OverlayAssumption DEF Handles
<1>6. TypeOK'
  <2>1. stream' \in [Group -> Streams]
    BY <1>2 DEF Off, Streams, Places
  <2>2. broken' \subseteq Hash
    BY <1>1, <1>2 DEF TypeOK
  <2> QED  BY <1>1, <1>2, <2>1, <2>2, TypeKeeps DEF TypeOK
<1>7. OnTrack' /\ CopyIsOwn' /\ UnlinkFinds' /\ WholeFile' /\ StopsEnd'
  BY <1>3 DEF OnTrack, At, CopyIsOwn, UnlinkFinds, WholeFile, StopsEnd
<1>8. PresentIsOwned'
  BY <1>1, <1>4, <1>5 DEF PresentIsOwned, FileHasOwner, Present
<1>9. ActiveIsOwned'
  BY <1>1, <1>2, <1>5 DEF ActiveIsOwned, MarkHasOwner, TypeOK
<1>10. MarkedIsWhole'
  <2> SUFFICES ASSUME NEW x \in active, Alone(x)' PROVE x \in Whole
    BY <1>2, <1>4 DEF MarkedIsWhole
  <2>1. Alone(x) /\ ~(\E g \in Group : Handles(g, x))
    BY <1>1, <1>5, AloneBefore DEF Alone, TypeOK
  <2> QED  BY <1>1, <2>1 DEF MarkedIsWhole, Handles
<1> QED
  BY <1>6, <1>7, <1>8, <1>9, <1>10, AloneBefore DEF OverlayInv
-----------------------------------------------------------------------------------
(* Files and marks have an owner, and the file of a track that no groups   *)
(* share and nothing broke is whole when it is used                        *)
(* (tmpfs_overlay.py:75-131, stream_engine.py:200-217).                    *)
THEOREM OverlayInvariant == Spec => []OverlayInv
<1>1. Init => OverlayInv
  <2> SUFFICES ASSUME Init PROVE OverlayInv
    OBVIOUS
  <2>1. \A g \in Group : stream[g].at = "off" /\ stream[g].hash = None
    BY DEF Init, Off
  <2>2. TypeOK
    BY DEF Init, Off, TypeOK, Places
  <2>3. SharingIsShared
    BY <2>1, OverlayAssumption DEF SharingIsShared, Sharing
  <2>4. PresentIsOwned /\ ActiveIsOwned /\ MarkedIsWhole
    BY DEF Init, PresentIsOwned, Present, ActiveIsOwned, MarkedIsWhole
  <2>5. OnTrack /\ CopyIsOwn /\ UnlinkFinds /\ WholeFile /\ StopsEnd
    BY <2>1 DEF OnTrack, At, CopyIsOwn, UnlinkFinds, WholeFile, StopsEnd
  <2> QED  BY <2>2, <2>3, <2>4, <2>5 DEF OverlayInv
<1>2. OverlayInv /\ [Next]_vars => OverlayInv'
  <2> SUFFICES ASSUME OverlayInv, [Next]_vars PROVE OverlayInv'
    OBVIOUS
  <2>1. CASE UNCHANGED vars
    BY <2>1 DEF vars, files, OverlayInv, TypeOK, OnTrack, At, SharingIsShared, Sharing,
       PresentIsOwned, Present, FileHasOwner, Handles, ActiveIsOwned, MarkHasOwner, CopyIsOwn,
       Alone, Whole, UnlinkFinds, WholeFile, MarkedIsWhole, StopsEnd
  <2>2. ASSUME Next PROVE Recorded
    BY <2>2 DEF Next, Step, Recorded, BreakOff, Activate, OpenCopy, EndCopy, NoSpace, Mark,
       SpawnFails, OpenFile, Crash, AttemptRecovery, IsActive, Deactivate, Unlink, Unmark,
       CacheChanges, Restart
  <2>3. ASSUME Next, NEW g \in Group, Step(g) PROVE OverlayInv'
    <3>1. ASSUME NEW h \in Hash, Activate(g, h) PROVE OverlayInv'
      BY <2>2, <2>3, <3>1, ActivateKeeps
    <3>2. CASE OpenCopy(g)
      BY <2>2, <2>3, <3>2, OpenCopyKeeps
    <3>3. CASE EndCopy(g)
      BY <2>2, <2>3, <3>3, EndCopyKeeps
    <3>4. CASE NoSpace(g)
      BY <2>2, <2>3, <3>4, NoSpaceKeeps
    <3>5. CASE Mark(g)
      BY <2>2, <2>3, <3>5, MarkKeeps
    <3>6. CASE SpawnFails(g)
      BY <2>2, <2>3, <3>6, SpawnFailsKeeps
    <3>7. CASE OpenFile(g) \/ Crash(g) \/ AttemptRecovery(g) \/ IsActive(g)
      BY <2>2, <2>3, <3>7, PlayingKeeps
    <3>8. CASE Deactivate(g)
      BY <2>2, <2>3, <3>8, DeactivateKeeps
    <3>9. CASE Unlink(g)
      BY <2>2, <2>3, <3>9, UnlinkKeeps
    <3>10. CASE Unmark(g)
      BY <2>2, <2>3, <3>10, UnmarkKeeps
    <3> QED
      BY <2>3, <3>1, <3>2, <3>3, <3>4, <3>5, <3>6, <3>7, <3>8, <3>9, <3>10 DEF Step
  <2>4. ASSUME Next, CacheChanges PROVE OverlayInv'
    BY <2>2, <2>4, CacheChangesKeeps
  <2>5. ASSUME Next, Restart PROVE OverlayInv'
    BY <2>2, <2>5, RestartKeeps
  <2> QED
    BY <2>1, <2>3, <2>4, <2>5 DEF Next
<1> QED
  BY <1>1, <1>2, PTL DEF Spec

(* Every variable stays in its range.                                      *)
THEOREM OverlayTypeCorrect == Spec => []TypeOK
<1>1. OverlayInv => TypeOK
  BY DEF OverlayInv
<1> QED
  BY OverlayInvariant, <1>1, PTL

(* However the streams of the groups overlap, FFmpeg reads a whole file    *)
(* from the tmpfs, also after a crash, if no other group handled the track *)
(* and nothing with it was broken off (tmpfs_overlay.py:75-111,            *)
(* recovery.py:85-96).                                                     *)
THEOREM FilesStayWhole == Spec => []WholeFile
<1>1. OverlayInv => WholeFile
  BY DEF OverlayInv
<1> QED
  BY OverlayInvariant, <1>1, PTL

(* A recovery that asks the active set is sent to a whole file             *)
(* (tmpfs_overlay.py:99-102, 122-131).                                     *)
THEOREM MarksStayTrue == Spec => []MarkedIsWhole
<1>1. OverlayInv => MarkedIsWhole
  BY DEF OverlayInv
<1> QED
  BY OverlayInvariant, <1>1, PTL

(* Only a track that groups share makes a stop fail at its unlink          *)
(* (tmpfs_overlay.py:125-126).                                             *)
THEOREM StopsFailOnlyShared == Spec => []StopsEnd
<1>1. OverlayInv => StopsEnd
  BY DEF OverlayInv
<1> QED
  BY OverlayInvariant, <1>1, PTL

(* When all streams have ended, what is left in the tmpfs and in the       *)
(* active set is what was broken off, even if groups shared tracks: a file *)
(* and a mark always have a stream that will remove them                   *)
(* (tmpfs_overlay.py:122-131, stream_engine.py:213-217).                   *)
THEOREM StreamsLeaveNothing == Spec => []NothingLeft
<1>1. OverlayInv => NothingLeft
  <2> SUFFICES ASSUME OverlayInv, \A g \in Group : At(g, "off"), NEW h \in Present \cup active
               PROVE  h \in broken
    BY DEF NothingLeft
  <2>1. ~FileHasOwner(h) /\ ~MarkHasOwner(h)
    BY DEF FileHasOwner, MarkHasOwner, At, Responsible
  <2> QED  BY <2>1 DEF OverlayInv, PresentIsOwned, ActiveIsOwned
<1> QED
  BY OverlayInvariant, <1>1, PTL
===================================================================================
