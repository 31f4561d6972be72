---------------------------- MODULE AccountForms ----------------------------
(***************************************************************************)
(* The forms about people and secrets: the dialogs of the users page, the  *)
(* pages an emailed link leads to, the password card of the profile and    *)
(* the DNS credentials dialog.  Each has its controls, the values it is    *)
(* seeded with, the checks of its submit and the payload it sends;         *)
(* HostForms runs them like the other dialogs.                             *)
(***************************************************************************)
EXTENDS FormBasics

AccountKinds ==
    {"user", "invite", "reset_password", "change_password", "reset_link", "accept_invite",
     "forgot_password", "dns_credential"}

\* The pages that are nothing without the token of their link.
LinkKinds == {"reset_link", "accept_invite"}

\* String.trim
trim(v) == CASE v = " " -> "" [] v = " n" -> "n" [] OTHER -> v

Emails == {"", " ", "e", "junk"}
FullNames == {"", "n", " n"}
\* Shorter than MIN_PASSWORD_LENGTH or not.
Passwords == {"", "short", "long", "long too"}
tooShort(p) == p \in {"", "short"}

\* validateNewPassword
validateNewPassword(f) ==
    << Check("password", "stay", tooShort(f.password)),
       Check("confirm", "stay", f.password # f.confirm) >>
PasswordPair == [password |-> Passwords, confirm |-> Passwords]
NoPasswords == [password |-> "", confirm |-> ""]

-----------------------------------------------------------------------------
(* user-dialog.tsx: "self" is the row of whoever is signed in.             *)

UserFields ==
    [email |-> Emails, full_name |-> FullNames, password |-> Passwords,
     role |-> {"member", "admin"}, is_active |-> Toggle]

UserNew == [email |-> "", full_name |-> "", role |-> "member", is_active |-> "on"]
UserSeed(h) ==
    [f \in DOMAIN UserFields |->
        IF f = "password" THEN "" ELSE IF h = NoHost THEN UserNew[f] ELSE h[f]]

\* The email and the password belong to a new user, the role and the switch to
\* a new one or another.
UserControl(f, h) ==
    /\ f \in {"email", "password"} => h = NoHost
    /\ f \in {"role", "is_active"} => h.id # "self"

UserChecks(f, h) ==
    << Check("email", "stay", h = NoHost /\ trim(f.email) = ""),
       Check("password", "stay", h = NoHost /\ tooShort(f.password)) >>

UserPayload(f, h) ==
    [x \in {"id", "full_name"} \cup {y \in DOMAIN f : UserControl(y, h)} |->
        CASE x = "id" -> h.id [] x = "password" -> f[x] [] OTHER -> trim(f[x])]

-----------------------------------------------------------------------------
(* invite-dialog.tsx                                                       *)

InviteFields == [email |-> Emails, full_name |-> FullNames, role |-> {"member", "admin"}]
InviteNew == [email |-> "", full_name |-> "", role |-> "member"]
InviteChecks(f) == << Check("email", "stay", trim(f.email) = "") >>
InvitePayload(f) ==
    [id |-> "none", email |-> trim(f.email), full_name |-> trim(f.full_name), role |-> f.role]

-----------------------------------------------------------------------------
(* reset-password-dialog.tsx, reset-password-form.tsx and the password     *)
(* card of profile-view.tsx send the password alone; accept-invite-form    *)
(* sends a name with it, forgot-password-form an address as it was typed.  *)

PasswordPayload(f, h) == [id |-> h.id, password |-> f.password]

AcceptFields == Merge(PasswordPair, [full_name |-> FullNames])
AcceptNew == Merge(NoPasswords, [full_name |-> ""])
AcceptPayload(f) == [id |-> "none", full_name |-> trim(f.full_name), password |-> f.password]

ForgotFields == [email |-> Emails]
ForgotPayload(f) == [id |-> "none", email |-> f.email]

-----------------------------------------------------------------------------
(* dns-credential-dialog.tsx, dns-providers/lib.ts.  Two providers, which  *)
(* share the name of their secret; a secret is named for the provider it   *)
(* was entered for.                                                        *)

Catalog == [cf |-> {"token", "zone"}, aws |-> {"token", "region"}]

DnsFields ==
    [name |-> {"", " ", "n"}, provider |-> DOMAIN Catalog, token |-> {"", " ", "cf", "aws"},
     zone |-> {"", "z"}, region |-> {"", "r"}]

emptyValues == [token |-> "", zone |-> "", region |-> ""]

\* The first provider is chosen, if the catalog has one; the API returns the
\* plain options of a credential and none of its secrets.
DnsSeed(h, catalog) ==
    IF h = NoHost
    THEN Merge(emptyValues, [name |-> "", provider |-> IF catalog THEN "cf" ELSE ""])
    ELSE [f \in DOMAIN DnsFields |-> IF f \in DOMAIN h THEN OrBlank(h[f]) ELSE ""]

\* The provider of a stored credential is fixed; a secret is entered for the
\* provider that is shown.
DnsControl(f, v, form, h) ==
    /\ f = "provider" => h = NoHost /\ form.provider # ""
    /\ f \in DOMAIN emptyValues => form.provider # "" /\ f \in Catalog[form.provider]
    /\ f = "token" => v \in {"", " ", form.provider}

\* changeProvider empties the fields.
changeProvider(form, v) == [Merge(emptyValues, form) EXCEPT !.provider = v]

DnsChecks(f, h) ==
    << Check("name", "stay", trim(f.name) = ""),
       Check("provider", "stay", f.provider = ""),
       Check("token", "stay", h = NoHost /\ trim(f.token) = "") >>

\* buildOptionsPayload: the fields of the provider, blank ones left out; an
\* update does not name the provider.
DnsPayload(f, h) ==
    [x \in {"id", "name"} \cup Catalog[f.provider] \cup (IF h = NoHost THEN {"provider"} ELSE {})
       |-> CASE x = "id" -> h.id
             [] x \in DOMAIN emptyValues -> OrNull(trim(f[x]))
             [] OTHER -> trim(f[x])]

-----------------------------------------------------------------------------
(* By kind.                                                                *)

AccountFields(k) ==
    CASE k = "user" -> UserFields
      [] k = "invite" -> InviteFields
      [] k \in {"reset_password", "change_password", "reset_link"} -> PasswordPair
      [] k = "accept_invite" -> AcceptFields
      [] k = "forgot_password" -> ForgotFields
      [] k = "dns_credential" -> DnsFields

AccountSeed(k, h, options) ==
    CASE k = "user" -> UserSeed(h)
      [] k = "invite" -> InviteNew
      [] k \in {"reset_password", "change_password", "reset_link"} -> NoPasswords
      [] k = "accept_invite" -> AcceptNew
      [] k = "forgot_password" -> [email |-> ""]
      [] k = "dns_credential" -> DnsSeed(h, options)

AccountChecks(k, f, h) ==
    CASE k = "user" -> UserChecks(f, h)
      [] k = "invite" -> InviteChecks(f)
      [] k = "dns_credential" -> DnsChecks(f, h)
      [] k = "forgot_password" -> << >>
      [] OTHER -> validateNewPassword(f)

AccountPayload(k, f, h) ==
    CASE k = "user" -> UserPayload(f, h)
      [] k = "invite" -> InvitePayload(f)
      [] k = "accept_invite" -> AcceptPayload(f)
      [] k = "forgot_password" -> ForgotPayload(f)
      [] k = "dns_credential" -> DnsPayload(f, h)
      [] OTHER -> PasswordPayload(f, h)

\* Whether a form can be sent at all: a link with its token, an address typed.
AccountSendable(k, f, options) ==
    /\ k \in LinkKinds => options
    /\ k = "forgot_password" => f.email # ""

\* The API's rules: app/schemas, the user service and the DNS credentials.
AccountRefused(f, p, h) ==
    \/ f = "password" /\ tooShort(p[f])
    \/ f = "email" /\ p[f] # "e"
    \/ f = "role" /\ p.id = "self" /\ p[f] # h.role
    \/ f = "is_active" /\ p.id = "self" /\ p[f] = "off"
    \/ f = "token" /\ p.id = "none" /\ p[f] = "null"
    \/ f \in {"zone", "region"} /\ p.id = "none" /\ f \notin Catalog[p.provider]

\* update_credential: a secret that is left out stays.
SecretsAfter(p, secrets) == [token |-> IF p.token = "null" THEN secrets.token ELSE p.token]

=============================================================================
