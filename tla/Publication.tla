---------------------------- MODULE Publication ----------------------------
(***************************************************************************)
(* The publication record kept beside a mirror under                       *)
(* .model-mirror/torrent, and the transitions torrent_publication.py       *)
(* makes on it.  The module has no state of its own: every operator maps   *)
(* the record a command read to the record it writes back.  Digests,       *)
(* paths, magnet links and timestamps play no part in the protocol and are *)
(* left out; the payload fingerprints are kept in ArchiveRoot, where they  *)
(* can be compared with the payload.                                       *)
(***************************************************************************)

Lifecycle == {"absent", "published", "maintenance", "unhealthy", "retired"}

ClientMode == {"managed", "external"}

Backend == {"pending", "seeding", "stopping", "stopped",
            "external", "unhealthy", "error"}

\* What a PublicationRecord tells the protocol.  "absent" is the record of
\* a commit that was never published.
PublicationRecord ==
    [lifecycle: Lifecycle,
     desired_seed: BOOLEAN,
     client_mode: ClientMode,
     observed_backend: Backend,
     maintenance_resume_seed: BOOLEAN]

NoRecord ==
    [lifecycle |-> "absent",
     desired_seed |-> FALSE,
     client_mode |-> "managed",
     observed_backend |-> "stopped",
     maintenance_resume_seed |-> FALSE]

-----------------------------------------------------------------------------

\* PublicationRecord.active, for a record that exists.
active(r) == r.lifecycle \notin {"absent", "retired"}

\* The three conditions under which the managed seeder serves a record.
wanted(r) ==
    /\ r.desired_seed
    /\ r.client_mode = "managed"
    /\ r.lifecycle = "published"

\* The backend may still hold the payload open: what retirement and
\* maintenance wait out.
attached(r) == r.observed_backend \in {"seeding", "stopping"}

-----------------------------------------------------------------------------

\* create_publication: the record written over `existing`.
created(existing, desired, mode) ==
    [lifecycle |-> "published",
     desired_seed |-> desired,
     client_mode |-> mode,
     observed_backend |->
        IF existing.lifecycle # "absent" /\ existing.client_mode = mode
        THEN existing.observed_backend
        ELSE IF mode = "external" THEN "external" ELSE "pending",
     maintenance_resume_seed |-> FALSE]

\* A stop that reports the backend gone at once, although it may be seeding.
seed_stopped_at_once(r) ==
    [r EXCEPT !.desired_seed = FALSE,
              !.observed_backend = "stopped",
              !.maintenance_resume_seed = FALSE]

\* set_seed_desired(desired=False), the only direction any command uses.
seed_stopped(r) ==
    [r EXCEPT !.desired_seed = FALSE,
              !.observed_backend =
                 IF r.client_mode = "managed" /\ attached(r)
                 THEN "stopping" ELSE "stopped",
              !.maintenance_resume_seed = FALSE]

\* retire_publication, once the backend is known to be detached.
retired(r) ==
    [r EXCEPT !.lifecycle = "retired",
              !.desired_seed = FALSE,
              !.observed_backend = "stopped",
              !.maintenance_resume_seed = FALSE]

\* A begin that parks the intent again on every rerun.
in_maintenance_again(r) ==
    [r EXCEPT !.maintenance_resume_seed = r.desired_seed,
              !.desired_seed = FALSE,
              !.lifecycle = "maintenance",
              !.observed_backend = IF @ = "seeding" THEN "stopping" ELSE @]

\* begin_maintenance: the intent to seed is parked, and only the first of
\* several begins parks it.
in_maintenance(r) ==
    [r EXCEPT !.maintenance_resume_seed =
                 IF r.lifecycle = "maintenance" THEN @ ELSE r.desired_seed,
              !.desired_seed = FALSE,
              !.lifecycle = "maintenance",
              !.observed_backend = IF @ = "seeding" THEN "stopping" ELSE @]

\* finish_maintenance: the parked intent comes back only after success.
after_maintenance(r, healthy) ==
    LET resume == healthy /\ r.maintenance_resume_seed IN
    [r EXCEPT !.maintenance_resume_seed = FALSE,
              !.lifecycle = IF healthy THEN "published" ELSE "unhealthy",
              !.desired_seed = resume,
              !.observed_backend = IF resume THEN "pending" ELSE "stopped"]

\* begin_maintenance refuses a payload an external client may be serving.
maintainable(r) == r.client_mode = "managed" \/ r.observed_backend = "stopped"

\* update_observed_backend without a lifecycle, and the seeder's verdict that
\* the payload is not what was published.
observed(r, backend) == [r EXCEPT !.observed_backend = backend]

unhealthy(r) ==
    [r EXCEPT !.observed_backend = "unhealthy", !.lifecycle = "unhealthy"]

=============================================================================
