-------------------------------- MODULE Napi --------------------------------
(***************************************************************************)
(* The state word of a struct napi_struct, as net/core/dev.c changes it.   *)
(* Each operator maps the old word to the word that one successful         *)
(* try_cmpxchg (or set_bit/clear_bit) leaves behind; the word is the set   *)
(* of bits that are set.  Threaded NAPI, busy polling and the GRO flush    *)
(* timer are off for WireGuard's instances (peer.c sets NO_BUSY_POLL and   *)
(* nothing turns threading on), so their bits are left out.                *)
(***************************************************************************)

NapiBits == {"SCHED", "MISSED", "DISABLE", "NPSVC"}

\* napi_enable() leaves an instance idle: neither SCHED nor NPSVC.
napi_enabled == {}

\* The new word of napi_schedule_prep(): refused while a disable is pending,
\* otherwise SCHED, and MISSED too when SCHED was already set.
napi_schedule_prep(val) ==
    CASE "DISABLE" \in val -> val
      [] "DISABLE" \notin val /\ "SCHED" \in val -> val \cup {"MISSED"}
      [] OTHER -> val \cup {"SCHED"}

\* Slip: the caller that merely set MISSED also puts the instance on a list.
Slip_owns_when_scheduled(val) == "DISABLE" \notin val

\* What napi_schedule_prep() returns: the caller now owns the instance and
\* must put it on a poll list.
schedule_prep_owns(val) == val \cap {"DISABLE", "SCHED"} = {}

\* napi_complete_done() touches nothing while NPSVC is set.
complete_allowed(val) == "NPSVC" \notin val

\* The new word of napi_complete_done(): MISSED is traded for another SCHED.
napi_complete_done(val) ==
    IF "MISSED" \in val THEN val \ {"MISSED"} ELSE val \ {"SCHED"}

\* napi_disable(): the word it may replace and the word it installs before it
\* clears DISABLE again.
disable_allowed(val) == val \cap {"SCHED", "NPSVC"} = {}
napi_disabled(val) == (val \cup {"SCHED", "NPSVC"}) \ {"DISABLE"}
=============================================================================
