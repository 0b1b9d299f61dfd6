-------------------------- MODULE MCCustomerSystem --------------------------
(* Constants of the CustomerSystem run. *)
EXTENDS CustomerSystem, TLC

CONSTANTS j1, j2, j3, alice, carol, dave, root, boss, n1, n2, n3, n4, n5, x, y

Call(kind, email, actor, role, fields, value) ==
    [kind |-> kind, email |-> email, actor |-> actor, role |-> role,
     fields |-> fields, value |-> value]
Own(kind, e) == Call(kind, e, e, "CUSTOMER", {}, NoText)
Promote(actor, e) == Call("role", e, actor, "ADMIN", {}, NoText)
Demote(actor, e) == Call("role", e, actor, "CUSTOMER", {}, NoText)
Patch(e, f, v) == Call("profile", e, e, "CUSTOMER", {f}, v)
Verdict(actor, e, v) == Call("kyc", e, actor, "CUSTOMER", {"kyc_status"}, v)
Brand(actor, fs, v) == Call("branding", actor, actor, "CUSTOMER", fs, v)

\* Alice is a demo customer nobody has registered yet; Carol is the other one.
MCDemoUsers == <<alice, carol>>
MCOpeningRoles ==
    [e \in Emails |-> CASE e \in {root, boss} -> "ADMIN" [] e = carol -> "CUSTOMER"
                         [] OTHER -> NoUser]
MCOpeningNumbers ==
    [e \in Emails |-> CASE e = root -> {n1} [] e = boss -> {n2} [] e = carol -> {n3}
                         [] OTHER -> {}]
MCOpeningTokens == {<<root, "ADMIN">>, <<boss, "ADMIN">>, <<carol, "CUSTOMER">>}
MCOpeningProfiles == [e \in Emails |-> NoRow]

\* Registrations and starts that compete for one address or one account number, two
\* administrators who demote each other, and a customer who is promoted, logs in and
\* promotes.
AuthCalls ==
    << Own("start", alice), Own("register", alice), Own("register", dave), Own("login", carol),
       Promote(root, carol), Promote(carol, alice), Demote(root, boss), Demote(boss, root) >>

\* A profile that is opened, edited and judged before and after it exists.
ProfileCalls ==
    << Own("profile", carol), Patch(carol, "phone_number", x), Patch(carol, "id_number", y),
       Verdict(root, carol, "VERIFIED"), Verdict(boss, carol, "REJECTED"),
       Verdict(carol, carol, "VERIFIED") >>

\* First, second and third changes of the branding.
BrandingCalls ==
    << Brand(root, {"bank_name"}, x), Brand(boss, {"bank_logo_url"}, y),
       Brand(boss, BrandingFields, x), Brand(root, {"bank_logo_url"}, NoText) >>

\* A profile of a user who registers or is promoted meanwhile, a branding by somebody who
\* is demoted, and one that names no field.
MixedCalls ==
    { << Own("register", alice), Patch(alice, "phone_number", x), Verdict(root, alice, "VERIFIED") >>,
      << Own("login", carol), Promote(root, carol), Brand(carol, {"bank_name"}, x) >>,
      << Demote(root, boss), Brand(boss, {"bank_name"}, x), Brand(root, {"bank_logo_url"}, y) >>,
      << Demote(root, boss), Demote(boss, root), Brand(boss, {"bank_name"}, y) >>,
      << Promote(root, carol), Brand(boss, {"bank_name"}, x), Brand(root, {}, x) >>,
      << Promote(root, carol), Patch(carol, "id_number", y), Patch(carol, "id_number", x) >> }

\* Jobs differ only in what they are asked for: every choice of three different calls, in
\* one order, and those where the first n calls of the list come twice or thrice.
Triples(calls, n) ==
    LET I == 1..Len(calls)
        before(i, k) == i < k \/ (i = k /\ i <= n)
    IN  { << calls[t[1]], calls[t[2]], calls[t[3]] >> :
             t \in {u \in I \X I \X I : before(u[1], u[2]) /\ before(u[2], u[3])} }

MCWorkloads ==
    { [j \in Jobs |-> IF j = j1 THEN t[1] ELSE IF j = j2 THEN t[2] ELSE t[3]] :
        t \in Triples(AuthCalls, 2) \cup Triples(ProfileCalls, 1) \cup Triples(BrandingCalls, 0)
              \cup MixedCalls }
=============================================================================
