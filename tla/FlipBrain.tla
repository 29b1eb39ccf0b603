----------------------------- MODULE FlipBrain -----------------------------
(***************************************************************************)
(* The pure decision functions of the single-NAT cutover                   *)
(* (sanctum_cli/devices/flip.py and the verdict half of net/).  They hold  *)
(* no state and do no I/O; HubCutover consults them at every step.         *)
(* Addresses are abstracted to the classes the code tells apart:           *)
(*   none        no lease          apipa       169.254.x, DHCP failed      *)
(*   double_nat  an RFC1918 lease  cgnat       100.64/10                   *)
(*   pinned      public, held at /32 by the armor                          *)
(*   wide        public with an ordinary prefix                            *)
(*   poisoned    public with Bell's /1 netmask and 0.0.0.0/1 route         *)
(***************************************************************************)
EXTENDS Naturals, Sequences

Lease == {"none", "apipa", "double_nat", "cgnat", "pinned", "wide", "poisoned"}

\* The nine stages of a cutover, in the order the walk takes them.
FLIP_STAGES == << "preflight", "wan_dhcp", "stage_armor", "enable_dmz", "hub_reboot",
                  "observe_lease", "apply_armor", "verify", "arm" >>

FlipStage == {FLIP_STAGES[i] : i \in DOMAIN FLIP_STAGES}

INTERLOCKED_STAGES == {"enable_dmz"}

\* s is the first stage that is not done yet.
IsNextStage(s, done) ==
    \E i \in DOMAIN FLIP_STAGES :
        /\ FLIP_STAGES[i] = s
        /\ s \notin done
        /\ \A j \in DOMAIN FLIP_STAGES : j < i => FLIP_STAGES[j] \in done

-----------------------------------------------------------------------------
\* flip's own classifier knows four classes: CGNAT and every public lease are
\* "public" to it, whatever their prefix.
ClassifyWanIp(lease) ==
    IF lease \in {"none", "apipa", "double_nat"} THEN lease ELSE "public"

\* (mutant) No lease at all taken for a definite verdict.
OnlyApipaIsRetryable == {"apipa"}

RetryableLeaseClasses == {"apipa", "none"}

\* One tick of the settle poll.
SettlePollDecision(observed, elapsed, timeout) ==
    IF observed = "public" THEN "settled_ok"
    ELSE IF observed \in RetryableLeaseClasses /\ elapsed < timeout THEN "keep_polling"
    ELSE "hard_fail"

\* (mutant) A ride without its bound.
BoxOpNeverGivesUp(elapsed, timeout) == "retry"

\* One tick of a box operation whose transport failed.
BoxOpRetryDecision(elapsed, timeout) ==
    IF elapsed < timeout THEN "retry" ELSE "give_up"

\* The gate a public lease passes before it may be committed: no /1 poison, and
\* for a playbook that needs the armor the /32 pin must be there.
EvaluateWanPoison(lease, requiresArmor) ==
    /\ lease # "poisoned"
    /\ requiresArmor => lease = "pinned"

\* The AND-gate evaluated at the moment DMZ is engaged.
EvaluateInterlock(oobLive, armorStaged, rollbackStaged) ==
    oobLive /\ armorStaged /\ rollbackStaged

-----------------------------------------------------------------------------
\* The second hop a traceroute from the operator's machine can show over a
\* WAN in the given state: the hub when it still does NAT, an ISP router when
\* it does not, and nothing at all when the probe goes unanswered.
Hop2(lease) ==
    {"none"} \cup
    CASE lease = "double_nat" -> {"private"}
      [] lease = "cgnat" -> {"cgnat"}
      [] lease \in {"pinned", "wide", "poisoned"} -> {"public"}
      [] OTHER -> {}

\* Single, double or carrier-grade NAT: the traceroute outranks the WAN address.
ClassifyNat(hop2, wanIp) ==
    IF "cgnat" \in {hop2, wanIp} THEN "CGNAT"
    ELSE IF hop2 # "none" THEN (IF hop2 = "public" THEN "SINGLE" ELSE "DOUBLE")
    ELSE IF wanIp \in {"double_nat", "apipa"} THEN "DOUBLE"
    ELSE IF wanIp # "none" THEN "SINGLE"
    ELSE "UNKNOWN"

Verdict == {"APIPA_ROLLBACK", "VERIFIED", "NOT_YET", "INCONCLUSIVE"}

\* (mutant) A self-assigned address read as the private lease it looks like.
VerifyBlindToApipa(hop2, wanIp) ==
    CASE ClassifyNat(hop2, wanIp) = "SINGLE" -> "VERIFIED"
      [] ClassifyNat(hop2, wanIp) = "DOUBLE" -> "NOT_YET"
      [] OTHER -> "INCONCLUSIVE"

\* net.verify.verify over what the runner says of the WAN.
VerifyVerdict(hop2, wanIp) ==
    IF wanIp = "apipa" THEN "APIPA_ROLLBACK"
    ELSE CASE ClassifyNat(hop2, wanIp) = "SINGLE" -> "VERIFIED"
           [] ClassifyNat(hop2, wanIp) = "DOUBLE" -> "NOT_YET"
           [] OTHER -> "INCONCLUSIVE"

\* The lease re-read of the observe_lease stage, judged without a traceroute.
LeaseIsSingleNat(lease) ==
    /\ lease \notin {"none", "apipa"}
    /\ ClassifyNat("none", lease) = "SINGLE"
=============================================================================
