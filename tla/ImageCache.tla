----------------------------- MODULE ImageCache -----------------------------
(***************************************************************************)
(* The image cache of the youki runtime for one image digest: a rootfs     *)
(* directory shared by every sandbox of the image, and a marker file that  *)
(* says it is complete.  Pulls run concurrently and without a lock; each   *)
(* step here is one file system call of pull_and_unpack_with, or of the    *)
(* write of resolv.conf that follows it.                                   *)
(***************************************************************************)
EXTENDS Naturals, FiniteSets

CONSTANTS Puller,   \* the starts that pull the image
          Fault     \* what may happen: "registry", "disk", "unlink", "deadline", "crash"

VARIABLES
  marker,     \* the .complete file exists
  rootfs,     \* "none", "part" (being removed, or only etc/), or "full"
  pull,       \* where each pull is, and whether it is to refresh the cache
  disturbed   \* a refresh failed, was cut short, or was not alone

imageVars == <<marker, rootfs, pull, disturbed>>

\* The argument `force` of pull_and_unpack_with, and where a pull is at rest.
Mode == {"reuse", "refresh"}
Returned == {"idle", "ready", "failed"}
NoPull == [at |-> "idle", mode |-> "reuse"]

ImageInit ==
  /\ marker = FALSE
  /\ rootfs = "none"
  /\ pull = [p \in Puller |-> NoPull]
  /\ disturbed = FALSE

\* A refresh is between the removal of the marker and its return.
Refreshing(p) == pull[p].mode = "refresh" /\ pull[p].at \in {"evict", "removing", "rename", "mark"}
Active(p) == pull[p].at \notin Returned
Alone(p) == \A q \in Puller \ {p} : ~Active(q)

Step(p, at) ==
  pull' = [pull EXCEPT ![p] = [at |-> at, mode |-> IF at \in Returned THEN "reuse" ELSE pull[p].mode]]
Fails(p) == Step(p, "failed")

\* Every step of another pull taken during a refresh disturbs it.
Disturbs(p) == disturbed' = (disturbed \/ \E q \in Puller \ {p} : Refreshing(q))

BeginPull(p, mode) ==
  /\ pull[p].at \in Returned
  /\ pull' = [pull EXCEPT ![p] = [at |-> "manifest", mode |-> mode]]
  /\ Disturbs(p)
  /\ UNCHANGED <<marker, rootfs>>

\* The manifest gives the digest; then the marker decides, unless it is
\* bypassed by a refresh.
CheckMarker(p) ==
  /\ pull[p].at = "manifest"
  /\ \/ "registry" \in Fault /\ Fails(p)
     \/ Step(p, IF pull[p].mode = "reuse" /\ marker THEN "resolv" ELSE "extract")
  /\ Disturbs(p)
  /\ UNCHANGED <<marker, rootfs>>

\* The layers are extracted into a directory of the pull's own, which is
\* removed if that fails.
Extract(p) ==
  /\ pull[p].at = "extract"
  /\ \/ {"registry", "disk"} \cap Fault # {} /\ Fails(p)
     \/ Step(p, "install")
  /\ Disturbs(p)
  /\ UNCHANGED <<marker, rootfs>>

\* A refresh removes the marker first, and does not look whether it could,
Unmark(p) ==
  /\ pull[p].at = "install" /\ pull[p].mode = "refresh"
  /\ \/ marker' = FALSE
     \/ "unlink" \in Fault /\ UNCHANGED marker
  /\ Step(p, "evict")
  /\ disturbed' = (disturbed \/ ~Alone(p) \/ marker')
  /\ UNCHANGED rootfs

\* then the old rootfs, if there is one; the removal takes a while,
Evict(p) ==
  /\ pull[p].at = "evict"
  /\ \/ rootfs = "none" /\ Step(p, "rename") /\ UNCHANGED rootfs
     \/ rootfs # "none" /\ Step(p, "removing") /\ rootfs' = "part"
  /\ Disturbs(p)
  /\ UNCHANGED marker

\* and fails if someone else removes or writes the directory meanwhile.
EvictDone(p) ==
  /\ pull[p].at = "removing"
  /\ \/ Step(p, "rename") /\ rootfs' = "none" /\ Disturbs(p)
     \/ /\ "disk" \in Fault \/ rootfs # "part" \/ ~Alone(p)
        /\ Fails(p) /\ disturbed' = TRUE /\ UNCHANGED rootfs
  /\ UNCHANGED marker

\* Not a refresh: if a rootfs is there by now, another pull installed it.
Install(p) ==
  /\ pull[p].at = "install" /\ pull[p].mode = "reuse"
  /\ Step(p, IF rootfs # "none" THEN "mark" ELSE "rename")
  /\ Disturbs(p)
  /\ UNCHANGED <<marker, rootfs>>

\* rename does not replace a directory that is not empty.
Rename(p) ==
  /\ pull[p].at = "rename"
  /\ \/ /\ rootfs = "none" /\ rootfs' = "full" /\ Step(p, "mark")
        /\ Disturbs(p)
     \/ /\ rootfs # "none" \/ "disk" \in Fault
        /\ Fails(p)
        /\ disturbed' = (disturbed \/ Refreshing(p) \/ \E q \in Puller \ {p} : Refreshing(q))
        /\ UNCHANGED rootfs
  /\ UNCHANGED marker

Mark(p) ==
  /\ pull[p].at = "mark"
  /\ \/ marker' = TRUE /\ Step(p, "resolv")
     \/ "disk" \in Fault /\ Fails(p) /\ UNCHANGED marker
  /\ Disturbs(p)
  /\ UNCHANGED rootfs

\* write_resolv_conf creates rootfs/etc if need be: the rootfs too, if it was
\* removed since.
WriteResolvConf(p) ==
  /\ pull[p].at = "resolv"
  /\ rootfs' = IF rootfs = "none" THEN "part" ELSE rootfs
  /\ \/ Step(p, "ready")
     \/ "disk" \in Fault /\ Fails(p)
  /\ Disturbs(p)
  /\ UNCHANGED marker

\* The start is dropped at its deadline, or the process ends: the files stay.
Abandon(P) ==
  /\ pull' = [p \in Puller |-> IF p \in P /\ Active(p) THEN [at |-> "failed", mode |-> "reuse"] ELSE pull[p]]
  /\ disturbed' = (disturbed \/ \E p \in Puller : Refreshing(p))
  /\ UNCHANGED <<marker, rootfs>>

PullStep(p) ==
  \/ CheckMarker(p) \/ Extract(p) \/ Unmark(p) \/ Evict(p) \/ EvictDone(p)
  \/ Install(p) \/ Rename(p) \/ Mark(p) \/ WriteResolvConf(p)

ImageNext ==
  \/ \E p \in Puller : (\E mode \in Mode : BeginPull(p, mode)) \/ PullStep(p)
  \/ /\ {"deadline", "crash"} \cap Fault # {}
     /\ \E P \in SUBSET Puller : Abandon(P)

ImageSpec == ImageInit /\ [][ImageNext]_imageVars

-----------------------------------------------------------------------------
ImageTypeOK ==
  /\ marker \in BOOLEAN
  /\ rootfs \in {"none", "part", "full"}
  /\ pull \in [Puller -> [at : {"idle", "manifest", "extract", "install", "evict", "removing",
                                "rename", "mark", "resolv", "ready", "failed"},
                          mode : Mode]]
  /\ disturbed \in BOOLEAN

\* The cache is never wrong about an image (image.rs: "marker exists => rootfs
\* exists", and complete), as long as every refresh ran alone and to its end:
\* first pulls may overlap, fail and be cut short at any step.
MarkerMeansComplete == marker => rootfs = "full" \/ disturbed

\* A start is given a complete rootfs, under the same condition.
ServedComplete ==
  \A p \in Puller : pull[p].at = "ready" => rootfs = "full" \/ disturbed
    \/ \E q \in Puller : Refreshing(q)

\* What image.rs says of a refresh that fails once the marker is removed: the
\* next pull "does a full re-extract", and there is "no corruption".
NoCorruption == marker => rootfs = "full"

\* The strengthening of both that every step keeps: an undisturbed refresh is
\* alone and has no marker beside it, a rootfs is incomplete only while one
\* removes it, and whoever is about to write the marker has a complete rootfs.
CacheInv ==
  /\ ImageTypeOK
  /\ \A p \in Puller : pull[p].at \in {"evict", "removing"} => pull[p].mode = "refresh"
  /\ ~disturbed =>
       /\ marker => rootfs = "full"
       /\ rootfs = "part" => \E p \in Puller : pull[p].at = "removing"
       /\ \A p \in Puller :
            /\ Refreshing(p) => ~marker /\ Alone(p)
            /\ pull[p].at = "mark" => rootfs = "full"
            /\ pull[p].at \in {"resolv", "ready"} =>
                 rootfs = "full" \/ \E q \in Puller : Refreshing(q)
=============================================================================
