--------------------------- MODULE CustomerTables ---------------------------
(***************************************************************************)
(* What the tables about customers are made of (app/models/domain.py,      *)
(* app/models/profile.py, app/models/branding.py), what they hold at the   *)
(* opening, and what the jobs on them may be asked to do.  A user is named *)
(* by the e-mail address.                                                  *)
(***************************************************************************)
EXTENDS Naturals, Sequences, FiniteSets

CONSTANTS
    Jobs,           \* executions of the operations of AuthService and CustomerRecords
    Workloads,      \* what clients, administrators and starting workers ask the jobs for
    Emails,         \* e-mail addresses, cleaned
    Numbers,        \* account numbers the random generator may draw
    NoUser,         \* no users row with this address; no row locked; no role read
    DemoUsers,      \* the addresses of the demo customers, in the order of the list
    OpeningRoles,   \* the users table before the first job
    OpeningNumbers, \* the account numbers of each user before the first job
    OpeningTokens,  \* <<holder, role claim>> of the tokens issued before the first job
    Texts,          \* values of the text fields of profiles and of the branding
    NoText,         \* NULL in such a field
    OpeningProfiles, \* the user_profiles table before the first job
    OpeningBranding, \* the bank_config row before the first job, or NoRow
    NoRow            \* no such row

UserRole == {"CUSTOMER", "ADMIN"}
AuditEventType == {"USER_REGISTERED", "LOGIN_SUCCESS", "LOGIN_FAILED", "ROLE_UPDATED",
                   "BRANDING_UPDATED"}

KycStatus == {"PENDING", "VERIFIED", "REJECTED"}
ProfileFields == {"phone_number", "id_number"}
BrandingFields == {"bank_name", "bank_logo_url"}

\* What is done to whom by whom.  A start takes its addresses from DemoUsers; a PATCH
\* sets the fields it supplies, of those its schema knows, to one value; an update of the
\* branding is recorded under its actor.  Two fields stand for all of their kind.
JobCall ==
    {c \in [kind : {"register", "login", "role", "start", "profile", "kyc", "branding"},
            email : Emails, actor : Emails, role : UserRole,
            fields : SUBSET (ProfileFields \cup BrandingFields \cup {"kyc_status"}),
            value : Texts \cup {NoText} \cup KycStatus] :
        /\ c.kind = "profile" => c.fields \subseteq ProfileFields /\ c.value \in Texts \cup {NoText}
        /\ c.kind = "kyc" => c.fields = {"kyc_status"} /\ c.value \in KycStatus
        /\ c.kind = "branding" =>
              /\ c.fields \subseteq BrandingFields /\ c.value \in Texts \cup {NoText}
              /\ c.email = c.actor}

Profile == [ProfileFields \cup {"kyc_status"} -> Texts \cup {NoText} \cup KycStatus]
Branding == [BrandingFields -> Texts \cup {NoText}]

BlankProfile ==
    [f \in ProfileFields \cup {"kyc_status"} |-> IF f = "kyc_status" THEN "PENDING" ELSE NoText]
BlankBranding == [f \in BrandingFields |-> NoText]

\* Each branding job inserts at most one row.
ConfigIds == 1..(Cardinality(Jobs) + 1)

ASSUME WorkloadsAssumption == Workloads \subseteq [Jobs -> JobCall]
ASSUME NoUserAssumption == NoUser \notin Emails /\ NoUser \notin UserRole
ASSUME DemoUsersAssumption == DemoUsers \in Seq(Emails) /\ DemoUsers # << >>
ASSUME OpeningUsersAssumption ==
    /\ OpeningRoles \in [Emails -> UserRole \cup {NoUser}]
    /\ OpeningNumbers \in [Emails -> SUBSET Numbers]
    /\ OpeningTokens \subseteq
          {<<e, OpeningRoles[e]>> : e \in {f \in Emails : OpeningRoles[f] # NoUser}}
ASSUME JobsAssumption == IsFiniteSet(Jobs)
ASSUME NoRowAssumption == NoRow \notin Profile \cup Branding
ASSUME OpeningProfilesAssumption ==
    /\ OpeningProfiles \in [Emails -> Profile \cup {NoRow}]
    /\ \A e \in Emails : OpeningProfiles[e] # NoRow => OpeningRoles[e] # NoUser
ASSUME OpeningBrandingAssumption == OpeningBranding \in Branding \cup {NoRow}
=============================================================================
