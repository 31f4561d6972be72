------------------------------ MODULE HostForms ------------------------------
(***************************************************************************)
(* The dialogs in which an operator writes a proxy host, a redirection, a  *)
(* 404 host, a stream, an access list, a certificate or a whitelist, and   *)
(* the forms of AccountForms (src/frontend/src/components).  A dialog is   *)
(* seeded from a stored row or from defaults, is edited one control at a   *)
(* time on the tab that is open, checks itself on Save, names the first    *)
(* problem and opens the tab that holds it, or sends a payload that the    *)
(* API accepts or refuses.                                                 *)
(*                                                                         *)
(* A field holds a representative of each class of text the checks tell    *)
(* apart; "null" is null on the wire.                                      *)
(***************************************************************************)
EXTENDS AccountForms, FiniteSets

CONSTANTS
    Stored,    \* per kind, the rows an instance opens; NoHost is "New"
    Texts,     \* their ids, the names, addresses and hashes in their tables
    MaxEdits,  \* controls the operator changes
    MaxTries   \* saves

VARIABLES
    kind,     \* the open dialog
    stored,   \* the row it was seeded from
    hasOptions, \* whether there is a pool, a DNS credential or a provider to pick, or a token
    form,     \* the form state
    tab,      \* the tab that is open
    problem,  \* the error line: "none", the field it is about, or "api"
    step,     \* "editing", "sent", "ok", "err" or "closed"
    sent,     \* the last payload sent
    touched,  \* the controls the operator changed
    users,    \* the secrets the API holds, by user of an access list or field of a credential
    edits, tries

formVars == <<kind, stored, hasOptions, form, tab, problem, step, sent, touched, users,
              edits, tries>>

isEdit == stored.id # "none"

-----------------------------------------------------------------------------
(* Ports.  "80.5" is what a number input lets through besides digits.      *)

Ports == {"", "80", "80.5", "0"}

parsePort(s) == IF s \in {"80", "80.5"} THEN "80" ELSE "null"
parsePortStrict(s) == IF s = "80" THEN "80" ELSE "null"

\* DomainTagsInput: leaving the input commits its text; names that are not
\* domains stay in it and mark it invalid.
DomainTags == [domain_names |-> {"none", "ok"}, pending |-> {"none", "bad"}]

certificateIdFromValue(v) == IF v = "none" THEN "null" ELSE v
valueFromCertificateId(c) == IF c = "null" THEN "none" ELSE c
CertificateSelect == [certificate_id |-> {"none", "active", "pending"}]

-----------------------------------------------------------------------------
(* proxy-host-dialog.tsx, locations-editor.tsx, proxy-hosts/lib.ts         *)

ProxyIdentity == Merge(DomainTags, [access_list_id |-> {"none", "1"}, enabled |-> Toggle])
ProxyOptions == [options |-> Toggle]
RootTarget ==
    [mode |-> {"pool", "host"}, upstream_id |-> {"p"}, forward_host |-> {"", "h"},
     forward_port |-> Ports, forward_scheme |-> {"http", "https"}]
ProxyCertificate == [certificate_id |-> {"none", "active"}, tls |-> Toggle]
ProxyAdvanced ==
    [security |-> Toggle, maintenance |-> Toggle,
     maintenance_allow |-> {"empty", "ok", "loose", "bad"}, advanced_config |-> {"", "text"}]

\* A row of the locations table, its cells and the ones its kind shows.
LocationCells ==
    [path |-> {"", "/", "/a", "/b", "/a b"},
     mode |-> {"pool", "host", "default_site", "custom_page", "error_page"},
     upstream_id |-> {"p"}, forward_host |-> {"", "h"}, forward_port |-> Ports,
     forward_scheme |-> {"http", "https"}, page |-> {"c"}, code |-> {"404"}]

TargetCell(mode) ==
    CASE mode = "pool" -> {"upstream_id"}
      [] mode = "host" -> {"forward_host", "forward_port"}
      [] mode = "custom_page" -> {"page"}
      [] mode = "error_page" -> {"code"}
      [] mode = "default_site" -> {}

newLocationRow ==
    [path |-> "", mode |-> "pool", upstream_id |-> "", forward_host |-> "",
     forward_port |-> "", forward_scheme |-> "http", page |-> "", code |-> ""]

LocationSeed(l) ==
    [path |-> l.path,
     mode |-> IF l.target # "null" THEN l.target
              ELSE IF l.upstream_id # "null" THEN "pool" ELSE "host",
     upstream_id |-> OrBlank(l.upstream_id), forward_host |-> OrBlank(l.forward_host),
     forward_port |-> OrBlank(l.forward_port), forward_scheme |-> l.forward_scheme,
     page |-> OrBlank(l.page), code |-> OrBlank(l.code)]

ProxyNew ==
    [domain_names |-> "none", pending |-> "none", access_list_id |-> "none", enabled |-> "on",
     mode |-> IF hasOptions THEN "pool" ELSE "host", upstream_id |-> "", forward_host |-> "",
     forward_port |-> "", forward_scheme |-> "http", locations |-> <<>>,
     certificate_id |-> "none", options |-> "off", tls |-> "off", security |-> "off",
     maintenance |-> "off", maintenance_allow |-> "empty", advanced_config |-> ""]

ProxySeed(h) ==
    IF h = NoHost THEN ProxyNew
    ELSE [f \in DOMAIN ProxyNew |->
           CASE f = "pending" -> "none"
             [] f = "mode" -> IF h.upstream_id # "null" THEN "pool" ELSE "host"
             [] f \in {"upstream_id", "forward_host", "forward_port"} -> OrBlank(h[f])
             [] f \in {"certificate_id", "access_list_id"} -> valueFromCertificateId(h[f])
             [] f = "locations" -> [i \in DOMAIN h.locations |-> LocationSeed(h.locations[i])]
             [] OTHER -> h[f]]

\* isIpOrCidr takes loose spellings of IPv6 that the API refuses.
isIpOrCidr(e) == e # "bad"

validateLocations(rows) ==
    \E i \in DOMAIN rows :
        LET r == rows[i] IN
        \/ r.path \in {"", "/", "/a b"}
        \/ \E j \in 1..(i - 1) : rows[j].path = r.path
        \/ r.mode = "pool" /\ r.upstream_id = ""
        \/ r.mode = "custom_page" /\ r.page = ""
        \/ r.mode = "error_page" /\ r.code = ""
        \/ r.mode = "host" /\ (r.forward_host = "" \/ parsePort(r.forward_port) = "null")

ProxyChecks(f) ==
    << Check("pending", "stay", f.pending = "bad"),
       Check("domain_names", "stay", f.domain_names = "none"),
       Check("upstream_id", "forwarding", f.mode = "pool" /\ f.upstream_id = ""),
       Check("forward_host", "forwarding", f.mode = "host" /\ f.forward_host = ""),
       Check("forward_port", "forwarding", f.mode = "host" /\ parsePort(f.forward_port) = "null"),
       Check("maintenance_allow", "advanced", ~isIpOrCidr(f.maintenance_allow)),
       Check("locations", "forwarding", validateLocations(f.locations)) >>

\* Mutant of PoolOf: a pool picked before is sent whatever the mode.
PoolOfAny(f) == IF f.upstream_id = "" THEN "null" ELSE f.upstream_id

\* The pool of a target, when that is what it is.
PoolOf(f) == IF f.mode = "pool" THEN f.upstream_id ELSE "null"

LocationPayload(r) ==
    [path |-> r.path, target |-> r.mode,
     upstream_id |-> PoolOf(r),
     forward_host |-> IF r.mode = "host" THEN r.forward_host ELSE "null",
     forward_port |-> IF r.mode = "host" THEN parsePort(r.forward_port) ELSE "null",
     forward_scheme |-> r.forward_scheme,
     page |-> IF r.mode = "custom_page" THEN r.page ELSE "null",
     code |-> IF r.mode = "error_page" THEN r.code ELSE "null"]

\* buildPayload
ProxyPayload(f, h) ==
    LET pooled == f.mode = "pool" IN
    [id |-> h.id, domain_names |-> f.domain_names,
     upstream_id |-> PoolOf(f),
     forward_host |-> IF pooled THEN "null" ELSE f.forward_host,
     forward_port |-> IF pooled THEN "null" ELSE parsePort(f.forward_port),
     forward_scheme |-> f.forward_scheme,
     certificate_id |-> certificateIdFromValue(f.certificate_id),
     access_list_id |-> certificateIdFromValue(f.access_list_id),
     enabled |-> f.enabled, options |-> f.options, tls |-> f.tls, security |-> f.security,
     maintenance |-> f.maintenance, maintenance_allow |-> f.maintenance_allow,
     advanced_config |-> f.advanced_config,
     locations |-> [i \in DOMAIN f.locations |-> LocationPayload(f.locations[i])],
     appsec |-> IF h = NoHost THEN "off" ELSE h.appsec]

-----------------------------------------------------------------------------
(* redirection-host-dialog.tsx                                             *)

RedirectionDetails ==
    Merge(DomainTags,
          [forward_domain_name |-> {"", "d", "a b"}, forward_scheme |-> {"auto", "https"},
           forward_http_code |-> {"302", "301"}, preserve_path |-> Toggle,
           enabled |-> Toggle, options |-> Toggle])
RedirectionSsl == Merge(CertificateSelect, [tls |-> Toggle])

RedirectionNew ==
    [domain_names |-> "none", pending |-> "none", forward_domain_name |-> "",
     forward_scheme |-> "auto", forward_http_code |-> "302", preserve_path |-> "on",
     certificate_id |-> "none", enabled |-> "on", options |-> "off", tls |-> "off"]

RedirectionSeed(h) ==
    IF h = NoHost THEN RedirectionNew
    ELSE [f \in DOMAIN RedirectionNew |->
           CASE f = "pending" -> "none"
             [] f = "certificate_id" -> valueFromCertificateId(h.certificate_id)
             [] OTHER -> h[f]]

RedirectionChecks(f) ==
    << Check("pending", "details", f.pending = "bad"),
       Check("domain_names", "details", f.domain_names = "none"),
       Check("forward_domain_name", "details", f.forward_domain_name = "") >>

\* The advanced configuration, which the dialog does not show.
KeptConfig(h) == IF h = NoHost THEN "" ELSE h.advanced_config

RedirectionPayload(f, h) ==
    [x \in {"id", "advanced_config"} \cup (DOMAIN f \ {"pending"}) |->
        CASE x = "id" -> h.id
          [] x = "advanced_config" -> KeptConfig(h)
          [] x = "certificate_id" -> certificateIdFromValue(f[x])
          [] OTHER -> f[x]]

-----------------------------------------------------------------------------
(* dead-host-dialog.tsx                                                    *)

DeadDetails == Merge(DomainTags, [enabled |-> Toggle, options |-> Toggle])
DeadSsl == Merge(CertificateSelect, [tls |-> Toggle])

DeadNew ==
    [domain_names |-> "none", pending |-> "none", certificate_id |-> "none", enabled |-> "on",
     options |-> "on", tls |-> "off"]

DeadSeed(h) ==
    IF h = NoHost THEN DeadNew
    ELSE [f \in DOMAIN DeadNew |->
           CASE f = "pending" -> "none"
             [] f = "certificate_id" -> valueFromCertificateId(h.certificate_id)
             [] OTHER -> h[f]]

DeadChecks(f) ==
    << Check("pending", "details", f.pending = "bad"),
       Check("domain_names", "details", f.domain_names = "none") >>

DeadPayload(f, h) == RedirectionPayload(f, h)

-----------------------------------------------------------------------------
(* stream-dialog.tsx                                                       *)

StreamDetails ==
    [incoming_port |-> Ports, mode |-> {"pool", "host"}, upstream_id |-> {"p"},
     forward_host |-> {"", "h"}, forward_port |-> Ports, tcp_forwarding |-> Toggle,
     udp_forwarding |-> Toggle, enabled |-> Toggle]
StreamSsl == CertificateSelect

StreamNew ==
    [mode |-> "host", upstream_id |-> "", incoming_port |-> "", forward_host |-> "",
     forward_port |-> "", tcp_forwarding |-> "on", udp_forwarding |-> "off",
     certificate_id |-> "none", enabled |-> "on"]

StreamSeed(h) ==
    IF h = NoHost THEN StreamNew
    ELSE [f \in DOMAIN StreamNew |->
           CASE f = "mode" -> IF h.upstream_id # "null" THEN "pool" ELSE "host"
             [] f \in {"upstream_id", "forward_host", "forward_port"} -> OrBlank(h[f])
             [] f = "certificate_id" -> valueFromCertificateId(h.certificate_id)
             [] OTHER -> h[f]]

StreamChecks(f) ==
    << Check("incoming_port", "details", parsePortStrict(f.incoming_port) = "null"),
       Check("upstream_id", "details", f.mode = "pool" /\ f.upstream_id = ""),
       Check("forward_host", "details", f.mode = "host" /\ f.forward_host = ""),
       Check("forward_port", "details",
             f.mode = "host" /\ parsePortStrict(f.forward_port) = "null"),
       Check("tcp_forwarding", "details",
             f.tcp_forwarding = "off" /\ f.udp_forwarding = "off") >>

StreamPayload(f, h) ==
    [x \in {"id"} \cup (DOMAIN f \ {"mode"}) |->
        CASE x = "id" -> h.id
          [] x = "upstream_id" -> PoolOf(f)
          [] x = "forward_host" -> IF f.mode = "pool" THEN "null" ELSE f[x]
          [] x = "forward_port" -> IF f.mode = "pool" THEN "null" ELSE parsePortStrict(f[x])
          [] x = "incoming_port" -> parsePortStrict(f[x])
          [] x = "certificate_id" -> certificateIdFromValue(f[x])
          [] OTHER -> f[x]]

-----------------------------------------------------------------------------
(* access-list-dialog.tsx, access-lists/lib.ts                             *)

ListDetails == [name |-> {"", "n"}, satisfy_any |-> Toggle, pass_auth |-> Toggle]
UserCells == [username |-> {"", "u", "v", "u:v"}, password |-> {"", "typed"}]
ClientCells == [address |-> {"", "10.0.0.1", "junk"}, directive |-> {"allow", "deny"}]

blankUserRow == [id |-> "new", username |-> "", password |-> ""]
blankClientRow == [id |-> "new", address |-> "", directive |-> "allow"]

emptyFormState ==
    [name |-> "", satisfy_any |-> "off", pass_auth |-> "off",
     users |-> <<blankUserRow>>, clients |-> <<blankClientRow>>]

\* stateFromList: the API never returns a password, so none is filled in.
ListSeed(h) ==
    IF h = NoHost THEN emptyFormState
    ELSE [name |-> h.name, satisfy_any |-> h.satisfy_any, pass_auth |-> h.pass_auth,
          users |-> [i \in DOMAIN h.users |->
                       [id |-> h.users[i].id, username |-> h.users[i].username,
                        password |-> ""]],
          clients |-> h.clients]

isBlankUser(r) == r.id = "new" /\ r.username = "" /\ r.password = ""
\* Mutant of isBlankClient: a rule switched to deny is dropped like any other.
isBlankClientAddress(r) == r.id = "new" /\ r.address = ""
isBlankClient(r) == r.id = "new" /\ r.address = "" /\ r.directive = "allow"

\* Array.filter: the rows at the places given, in their order.
RowsAt(rows, places) ==
    [n \in 1..Cardinality(places) |->
        rows[CHOOSE i \in places : Cardinality({j \in places : j <= i}) = n]]

FilledUsers(f) == {i \in DOMAIN f.users : ~isBlankUser(f.users[i])}
FilledClients(f) == {i \in DOMAIN f.clients : ~isBlankClient(f.clients[i])}

submittableUsers(f) == RowsAt(f.users, FilledUsers(f))
submittableClients(f) == RowsAt(f.clients, FilledClients(f))

ListChecks(f) ==
    LET us == submittableUsers(f) IN
    << Check("name", "details", f.name = ""),
       Check("users", "authorization",
             \E i \in DOMAIN us :
                \/ us[i].username = ""
                \/ us[i].id = "new" /\ us[i].password = ""
                \/ \E j \in 1..(i - 1) : us[j].username = us[i].username),
       Check("clients", "access",
             \E i \in DOMAIN submittableClients(f) : submittableClients(f)[i].address = "") >>

\* Mutant of PasswordOf: only new users send one.
PasswordOfNew(r) == IF r.id = "new" THEN "typed" ELSE "null"

PasswordOf(r) == IF r.password = "" THEN "null" ELSE "typed"

\* buildCreatePayload and buildUpdatePayload: a blank password is left out.
ListPayload(f, h) ==
    [id |-> h.id, name |-> f.name, satisfy_any |-> f.satisfy_any, pass_auth |-> f.pass_auth,
     users |-> [i \in DOMAIN submittableUsers(f) |->
                  [username |-> submittableUsers(f)[i].username,
                   password |-> PasswordOf(submittableUsers(f)[i])]],
     clients |-> [i \in DOMAIN submittableClients(f) |->
                    [address |-> submittableClients(f)[i].address,
                     directive |-> submittableClients(f)[i].directive]]]

-----------------------------------------------------------------------------
(* certificate-dialog.tsx: each tab has its own button and sends its own   *)
(* request; a certificate is never edited.                                 *)

LetsEncryptFields ==
    Merge(DomainTags, [name |-> {"", "n"}, challenge |-> {"http-01", "dns-01"},
                       dns_credential_id |-> {"d"}, account_email |-> {"", "e"}])
CustomFields ==
    [custom_name |-> {"", "n"}, cert_pem |-> {"", "c"}, key_pem |-> {"", "k"},
     chain_pem |-> {"", "x"}]

CertificateNew ==
    [domain_names |-> "none", pending |-> "none", name |-> "", challenge |-> "http-01",
     dns_credential_id |-> "", account_email |-> "", custom_name |-> "", cert_pem |-> "",
     key_pem |-> "", chain_pem |-> ""]

\* submitLetsEncrypt with the checks of letsEncryptPayload, and submitCustom.
LetsEncryptChecks(f) ==
    << Check("pending", "stay", f.pending = "bad"),
       Check("name", "stay", f.name = ""),
       Check("domain_names", "stay", f.domain_names = "none"),
       Check("dns_credential_id", "stay",
             f.challenge = "dns-01" /\ f.dns_credential_id = "") >>
CustomChecks(f) ==
    << Check("custom_name", "stay", f.custom_name = ""),
       Check("cert_pem", "stay", f.cert_pem = ""),
       Check("key_pem", "stay", f.key_pem = "") >>

letsEncryptPayload(f, h) ==
    [id |-> h.id, name |-> f.name, domain_names |-> f.domain_names, challenge |-> f.challenge,
     account_email |-> IF f.account_email = "" THEN "null" ELSE f.account_email,
     dns_credential_id |-> IF f.challenge = "dns-01" THEN f.dns_credential_id ELSE "null"]
CustomPayload(f, h) ==
    [id |-> h.id, custom_name |-> f.custom_name, cert_pem |-> f.cert_pem, key_pem |-> f.key_pem,
     chain_pem |-> IF f.chain_pem = "" THEN "null" ELSE f.chain_pem]

-----------------------------------------------------------------------------
(* whitelist-dialog.tsx                                                    *)

WhitelistFields ==
    [wkind |-> {"ip_cidr", "expression"}, name |-> {"", "n"},
     ips |-> {"", "ok", "v6", "loose", "bad"}, cidrs |-> {"", "ok", "loose", "bad"},
     filter |-> {"", "f"}, expressions |-> {"", "e"}]

WhitelistNew ==
    [wkind |-> "ip_cidr", name |-> "", ips |-> "", cidrs |-> "", filter |-> "",
     expressions |-> ""]

WhitelistSeed(h) ==
    IF h = NoHost THEN WhitelistNew
    ELSE [f \in DOMAIN WhitelistNew |-> OrBlank(h[f])]

\* Whatever holds a colon passes for IPv6, and IPv4 octets may have leading
\* zeros: "loose" texts pass here and are no addresses to the API.
badIp(v) == v = "bad"

WhitelistChecks(f) ==
    LET listed == f.wkind = "ip_cidr" IN
    << Check("expressions", "stay", ~listed /\ f.expressions = ""),
       Check("ips", "stay", listed /\ badIp(f.ips)),
       Check("cidrs", "stay", listed /\ badIp(f.cidrs)),
       Check("ips", "stay", listed /\ f.ips = "" /\ f.cidrs = "") >>

\* Only the fields of the kind that is chosen are sent.
WhitelistPayload(f, h) ==
    LET listed == f.wkind = "ip_cidr" IN
    [id |-> h.id, wkind |-> f.wkind, name |-> f.name,
     enabled |-> IF h = NoHost THEN "on" ELSE h.enabled,
     ips |-> IF listed THEN f.ips ELSE "", cidrs |-> IF listed THEN f.cidrs ELSE "",
     filter |-> IF listed \/ f.filter = "" THEN "null" ELSE f.filter,
     expressions |-> IF listed THEN "" ELSE f.expressions]

-----------------------------------------------------------------------------
(* The open dialog.                                                        *)

HostKinds ==
    {"proxy", "redirection", "dead", "stream", "access_list", "certificate", "whitelist"}
Kinds == HostKinds \cup AccountKinds

\* The scalar controls of a dialog, by the tab that shows them.
Panels(k) ==
    CASE k = "proxy" -> [always |-> ProxyIdentity,
                         forwarding |-> Merge(ProxyOptions, RootTarget),
                         certificate |-> ProxyCertificate, advanced |-> ProxyAdvanced]
      [] k = "redirection" -> [details |-> RedirectionDetails, ssl |-> RedirectionSsl]
      [] k = "dead" -> [details |-> DeadDetails, ssl |-> DeadSsl]
      [] k = "stream" -> [details |-> StreamDetails, ssl |-> StreamSsl]
      [] k = "access_list" -> [details |-> ListDetails, authorization |-> <<>>, access |-> <<>>]
      [] k = "certificate" -> [letsencrypt |-> LetsEncryptFields, custom |-> CustomFields]
      [] k = "whitelist" -> [always |-> WhitelistFields]
      [] OTHER -> [always |-> AccountFields(k)]

\* The controls that hold a table of rows, and the cells of a row.
RowPanels(k) ==
    CASE k = "proxy" -> [locations |-> "forwarding"]
      [] k = "access_list" -> [users |-> "authorization", clients |-> "access"]
      [] OTHER -> <<>>
Cells == [locations |-> LocationCells, users |-> UserCells, clients |-> ClientCells]
BlankRow == [locations |-> newLocationRow, users |-> blankUserRow, clients |-> blankClientRow]

Untabbed == AccountKinds \cup {"whitelist"}
Tabs(k) == IF k \in Untabbed THEN {"always"} ELSE DOMAIN Panels(k) \ {"always"}
\* Mutant of FirstTab: every dialog opens on its details.
FirstTabDetails(k) == "details"
FirstTab(k) ==
    CASE k = "proxy" -> "forwarding" [] k = "certificate" -> "letsencrypt"
      [] k \in Untabbed -> "always" [] OTHER -> "details"

Seed(k, h) ==
    CASE k = "proxy" -> ProxySeed(h)
      [] k = "redirection" -> RedirectionSeed(h)
      [] k = "dead" -> DeadSeed(h)
      [] k = "stream" -> StreamSeed(h)
      [] k = "access_list" -> ListSeed(h)
      [] k = "certificate" -> CertificateNew
      [] k = "whitelist" -> WhitelistSeed(h)
      [] OTHER -> AccountSeed(k, h, hasOptions)

Checks ==
    CASE kind = "proxy" -> ProxyChecks(form)
      [] kind = "redirection" -> RedirectionChecks(form)
      [] kind = "dead" -> DeadChecks(form)
      [] kind = "stream" -> StreamChecks(form)
      [] kind = "access_list" -> ListChecks(form)
      [] kind = "certificate" -> IF tab = "custom" THEN CustomChecks(form)
                                 ELSE LetsEncryptChecks(form)
      [] kind = "whitelist" -> WhitelistChecks(form)
      [] OTHER -> AccountChecks(kind, form, stored)

Payload ==
    CASE kind = "proxy" -> ProxyPayload(form, stored)
      [] kind = "redirection" -> RedirectionPayload(form, stored)
      [] kind = "dead" -> DeadPayload(form, stored)
      [] kind = "stream" -> StreamPayload(form, stored)
      [] kind = "access_list" -> ListPayload(form, stored)
      [] kind = "certificate" -> IF tab = "custom" THEN CustomPayload(form, stored)
                                 ELSE letsEncryptPayload(form, stored)
      [] kind = "whitelist" -> WhitelistPayload(form, stored)
      [] OTHER -> AccountPayload(kind, form, stored)

\* Whether a dialog renders the control of field f.
Shown(f) ==
    /\ f = "maintenance_allow" => form.maintenance = "on"
    /\ (f \in {"upstream_id", "forward_host", "forward_port"} /\ kind \in {"proxy", "stream"}) =>
            f \in TargetCell(form.mode)
    /\ f = "dns_credential_id" => form.challenge = "dns-01"
    /\ f \in {"ips", "cidrs"} => form.wkind = "ip_cidr"
    /\ f \in {"filter", "expressions"} => form.wkind = "expression"
    /\ (kind = "user" /\ f = "password") => UserControl(f, stored)
    /\ f \in DOMAIN emptyValues => form.provider # "" /\ f \in Catalog[form.provider]
    /\ kind \in LinkKinds => hasOptions

\* Whether value v can be entered in it.
Usable(f, v) ==
    /\ Shown(f)
    /\ kind = "user" => UserControl(f, stored)
    /\ kind = "dns_credential" => DnsControl(f, v, form, stored)
    /\ f = "tls" => form.certificate_id # "none"
    /\ f \in {"upstream_id", "dns_credential_id"} => hasOptions

\* Whether the operator sees field f.
Visible(f) ==
    \/ \E t \in {"always", tab} \cap DOMAIN Panels(kind) :
          f \in DOMAIN Panels(kind)[t] /\ Shown(f)
    \/ f \in DOMAIN RowPanels(kind) /\ RowPanels(kind)[f] = tab

-----------------------------------------------------------------------------
(* The API's rules for a payload: app/schemas and the access list service. *)

OneTarget(p) ==
    (p.upstream_id # "null") # (p.forward_host # "null" /\ p.forward_port # "null")

LocationRefused(l) ==
    \/ l.path \in {"", "/", "/a b"}
    \/ (l.target = "pool") # (l.upstream_id # "null")
    \/ l.target = "host" /\ (l.forward_host \in {"null", ""} \/ l.forward_port = "null")
    \/ l.target # "host" /\ (l.forward_host # "null" \/ l.forward_port # "null")
    \/ (l.target = "custom_page") # (l.page # "null")
    \/ (l.target = "error_page") # (l.code # "null")

\* The fields for which the API refuses payload p of a dialog of kind k.  The
\* longest texts the columns hold (max_length) are not modelled: no form checks them.
ApiRefuses(k, p) ==
    {f \in DOMAIN p :
       \/ f = "domain_names" /\ p[f] = "none"
       \/ f = "upstream_id" /\ ~OneTarget(p)
       \/ f = "forward_host" /\ p[f] = ""
       \/ f = "incoming_port" /\ p[f] = "null"
       \/ f = "tcp_forwarding" /\ p[f] = "off" /\ p.udp_forwarding = "off"
       \/ f = "maintenance_allow" /\ p[f] \in {"loose", "bad"}
       \/ f = "forward_domain_name" /\ p[f] # "d"
       \/ f = "locations" /\ \/ \E i \in DOMAIN p[f] : LocationRefused(p[f][i])
                             \/ \E i, j \in DOMAIN p[f] : i # j /\ p[f][i].path = p[f][j].path
       \/ f = "users" /\ \E i \in DOMAIN p[f] :
             \/ p[f][i].username \in {"", "u:v"}
             \/ p[f][i].password = "null" /\ p[f][i].username \notin DOMAIN users
             \/ \E j \in DOMAIN p[f] : i # j /\ p[f][i].username = p[f][j].username
       \/ f = "clients" /\ \E i \in DOMAIN p[f] : p[f][i].address \in {"", "junk"}
       \/ f \in {"name", "custom_name", "cert_pem", "key_pem"} /\ p[f] = ""
       \/ f = "dns_credential_id" /\ (p[f] = "null") # (p.challenge = "http-01")
       \/ f = "ips" /\ (p[f] \in {"loose", "bad"} \/ (p.wkind = "expression" /\ p[f] # "")
                          \/ (p.wkind = "ip_cidr" /\ p[f] = "" /\ p.cidrs = ""))
       \/ f = "cidrs" /\ (p[f] \in {"loose", "bad"} \/ (p.wkind = "expression" /\ p[f] # ""))
       \/ f = "filter" /\ p.wkind = "ip_cidr" /\ p[f] # "null"
       \/ f = "expressions" /\ (p.wkind = "expression") # (p[f] # "")
       \/ k \in AccountKinds /\ AccountRefused(f, p, stored)}

\* _replace_auth_users: keyed by name, a missing password keeps the hash.
ListUsersAfter(p) ==
    [n \in {p.users[i].username : i \in DOMAIN p.users} |->
        LET i == CHOOSE j \in DOMAIN p.users : p.users[j].username = n IN
        IF p.users[i].password = "null" THEN users[n] ELSE "typed"]

UsersAfter(p) ==
    CASE kind = "access_list" -> ListUsersAfter(p)
      [] kind = "dns_credential" -> SecretsAfter(p, users)
      [] OTHER -> users

StoredUsers(k, h) ==
    IF h = NoHost \/ k \notin {"access_list", "dns_credential"} THEN <<>>
    ELSE IF k = "dns_credential" THEN [token |-> h.hash]
    ELSE [n \in {h.users[i].username : i \in DOMAIN h.users} |->
            h.users[CHOOSE i \in DOMAIN h.users : h.users[i].username = n].hash]

-----------------------------------------------------------------------------
(* The rows a dialog may be opened on, as app/schemas and the constraints  *)
(* of the tables (app/models) leave them, with the texts the console       *)
(* writes: names without blanks around them, no filter rather than an      *)
(* empty one.  Constraints no property rests on are not assumed: unique    *)
(* paths of locations, at_least_one_protocol, not_empty.                   *)

CertificateIds == {"null", "active", "pending"}

\* host_target_exactly_one, stream_target_exactly_one
OneTargetStored(h) ==
    \/ h.upstream_id = "null" /\ h.forward_host # "null" /\ h.forward_port # "null"
    \/ h.upstream_id # "null" /\ h.forward_host = "null" /\ h.forward_port = "null"

\* location_target_exactly_one
LocationRows ==
    {l \in [path : {"/a", "/b"}, target : LocationCells.mode, upstream_id : {"null", "p"},
            forward_host : {"null", "h"}, forward_port : {"null", "80"},
            forward_scheme : {"http", "https"}, page : {"null", "c"},
            code : {"null", "404"}] :
        /\ (l.target = "pool") = (l.upstream_id # "null")
        /\ (l.target = "host") = (l.forward_host # "null")
        /\ (l.target = "host") = (l.forward_port # "null")
        /\ (l.target = "custom_page") = (l.page # "null")
        /\ (l.target = "error_page") = (l.code # "null")}

ProxyRows ==
    {h \in [id : Texts, domain_names : {"ok"}, upstream_id : {"null", "p"},
            forward_host : {"null", "h"}, forward_port : {"null", "80"},
            forward_scheme : {"http", "https"}, certificate_id : CertificateIds,
            access_list_id : {"null", "1"}, enabled : Toggle, options : Toggle, tls : Toggle,
            security : Toggle, maintenance : Toggle, maintenance_allow : {"empty", "ok"},
            advanced_config : {"", "text"}, appsec : Toggle, locations : Seq(LocationRows)] :
        OneTargetStored(h)}

RedirectionRows ==
    [id : Texts, domain_names : {"ok"}, forward_domain_name : {"d"},
     forward_scheme : {"auto", "https"}, forward_http_code : {"301", "302"},
     preserve_path : Toggle, certificate_id : CertificateIds, enabled : Toggle,
     options : Toggle, tls : Toggle, advanced_config : {"", "text"}]

DeadRows ==
    [id : Texts, domain_names : {"ok"}, certificate_id : CertificateIds, enabled : Toggle,
     options : Toggle, tls : Toggle, advanced_config : {"", "text"}]

StreamRows ==
    {h \in [id : Texts, upstream_id : {"null", "p"}, incoming_port : {"80"},
            forward_host : {"null", "h"}, forward_port : {"null", "80"},
            tcp_forwarding : Toggle, udp_forwarding : Toggle, certificate_id : CertificateIds,
            enabled : Toggle] : OneTargetStored(h)}

\* access_list_auth_username
ListUsers == [id : Texts, username : Texts, hash : Texts]
ListClients == [id : Texts, address : Texts, directive : {"allow", "deny"}]
ListRows ==
    {h \in [id : Texts, name : {"n"}, satisfy_any : Toggle, pass_auth : Toggle,
            users : Seq(ListUsers), clients : Seq(ListClients)] :
        \A i, j \in DOMAIN h.users : h.users[i].username = h.users[j].username => i = j}

WhitelistRows ==
    {h \in [id : Texts, wkind : {"ip_cidr", "expression"}, name : {"n"}, enabled : Toggle,
            ips : {"", "ok", "v6"}, cidrs : {"", "ok"}, filter : {"null", "f"},
            expressions : {"", "e"}] :
        /\ h.wkind = "expression" => h.ips = "" /\ h.cidrs = ""
        /\ h.wkind = "ip_cidr" => h.filter = "null" /\ h.expressions = ""}

UserRows ==
    [id : Texts, email : {"e"}, full_name : {"", "n"}, role : {"member", "admin"},
     is_active : Toggle]

CredentialRows ==
    [id : Texts, name : {"n"}, provider : {"cf"}, token : {"null"}, zone : {"null", "z"},
     hash : Texts]
    \cup
    [id : Texts, name : {"n"}, provider : {"aws"}, token : {"null"}, region : {"null", "r"},
     hash : Texts]

RowsOf(k) ==
    CASE k = "proxy" -> ProxyRows
      [] k = "redirection" -> RedirectionRows
      [] k = "dead" -> DeadRows
      [] k = "stream" -> StreamRows
      [] k = "access_list" -> ListRows
      [] k = "whitelist" -> WhitelistRows
      [] k = "user" -> UserRows
      [] k = "reset_password" -> [id : Texts]
      [] k = "dns_credential" -> CredentialRows
      [] OTHER -> {}

ASSUME DialogConstants ==
    /\ \A k \in Kinds : Stored[k] \subseteq RowsOf(k) \cup {NoHost}
    /\ "none" \notin Texts /\ "new" \notin Texts
    /\ MaxEdits \in Nat /\ MaxTries \in Nat

-----------------------------------------------------------------------------
(* Actions.                                                                *)

\* A stored row that uses a pool or a provider proves that there is one.
MayLackOptions ==
    \/ kind \in {"proxy", "stream"} /\ (isEdit => stored.upstream_id = "null")
    \/ kind = "dns_credential" /\ ~isEdit
    \/ kind \in {"certificate"} \cup LinkKinds

Init ==
    /\ kind \in Kinds
    /\ stored \in Stored[kind]
    /\ hasOptions \in (IF MayLackOptions THEN BOOLEAN ELSE {TRUE})
    /\ form = Seed(kind, stored)
    /\ tab = FirstTab(kind)
    /\ problem = "none" /\ step = "editing" /\ sent = NoHost /\ touched = {}
    /\ users = StoredUsers(kind, stored)
    /\ edits = 0 /\ tries = 0

\* No dialog is open.
Closed ==
    /\ kind = "forgot_password" /\ stored = NoHost /\ hasOptions = TRUE
    /\ form = Seed(kind, stored) /\ tab = "always"
    /\ problem = "none" /\ step = "closed" /\ sent = NoHost /\ touched = {} /\ users = <<>>
    /\ edits = 0 /\ tries = 0

context == <<kind, stored, hasOptions, users>>

\* The operator works on the form, with a save to come.
AtForm == step = "editing" /\ tries < MaxTries

Edited(f) ==
    /\ AtForm /\ edits < MaxEdits /\ edits' = edits + 1
    /\ touched' = touched \cup {f}
    /\ UNCHANGED <<context, tab, problem, step, sent, tries>>

EditControl(t, f, v) ==
    /\ t \in {"always", tab} \cap DOMAIN Panels(kind)
    /\ f \in DOMAIN Panels(kind)[t] /\ v \in Panels(kind)[t][f] /\ v # form[f]
    /\ Usable(f, v)
    /\ form' = IF f = "provider" THEN changeProvider(form, v) ELSE [form EXCEPT ![f] = v]
    /\ Edited(f)

\* updateRow, update: one cell of row i of table f.
EditCell(f, i, c, v) ==
    /\ f \in DOMAIN RowPanels(kind) /\ RowPanels(kind)[f] = tab
    /\ i \in DOMAIN form[f] /\ c \in DOMAIN Cells[f] /\ v \in Cells[f][c] /\ v # form[f][i][c]
    /\ (f = "locations" /\ c \notin {"path", "mode", "forward_scheme"}) => c \in TargetCell(form[f][i].mode)
    /\ form' = [form EXCEPT ![f][i][c] = v]
    /\ Edited(f)

AddRow(f) ==
    /\ f \in DOMAIN RowPanels(kind) /\ RowPanels(kind)[f] = tab
    /\ form' = [form EXCEPT ![f] = Append(@, BlankRow[f])]
    /\ Edited(f)

RemoveRow(f, i) ==
    /\ f \in DOMAIN RowPanels(kind) /\ RowPanels(kind)[f] = tab /\ i \in DOMAIN form[f]
    /\ form' = [form EXCEPT ![f] =
                  [j \in 1..(Len(@) - 1) |-> @[IF j < i THEN j ELSE j + 1]]]
    /\ Edited(f)

\* The tabs stay open to clicks during a save, which neither reads nor sets the
\* tab: choosing one then is the same as choosing it afterwards.
ChooseTab(t) ==
    /\ t \in Tabs(kind) \ {tab} /\ AtForm
    /\ tab' = t
    /\ UNCHANGED <<context, form, problem, step, sent, touched, edits, tries>>

\* handleSubmit: the first check that fails, or the request.
Submit ==
    /\ AtForm /\ tries' = tries + 1
    /\ AccountSendable(kind, form, hasOptions)
    /\ LET bad == {i \in DOMAIN Checks : Checks[i].bad}
           first == CHOOSE i \in bad : \A j \in bad : i <= j
       IN IF bad # {}
          THEN /\ problem' = Checks[first].field
               /\ tab' = IF Checks[first].tab = "stay" THEN tab ELSE Checks[first].tab
               /\ UNCHANGED <<step, sent>>
          ELSE /\ problem' = "none" /\ step' = "sent" /\ sent' = Payload
               /\ tab' = tab
    /\ UNCHANGED <<context, form, touched, edits>>

\* The API takes a payload it accepts, or fails for a reason of its own.
ServeSave(accept) ==
    /\ step = "sent"
    /\ accept => ApiRefuses(kind, sent) = {}
    /\ step' = IF accept THEN "ok" ELSE "err"
    /\ users' = IF accept THEN UsersAfter(sent) ELSE users
    /\ UNCHANGED <<kind, stored, hasOptions, form, tab, problem, sent, touched, edits, tries>>

\* The whitelist dialog does not catch: a refused save shows nothing.  The
\* password card stays, its fields emptied.
AnswerSave ==
    /\ step \in {"ok", "err"}
    /\ step' = IF step = "ok" /\ kind # "change_password" THEN "closed" ELSE "editing"
    /\ problem' = IF step = "err" /\ kind # "whitelist" THEN "api" ELSE problem
    /\ form' = IF step = "ok" /\ kind = "change_password" THEN NoPasswords ELSE form
    /\ UNCHANGED <<context, tab, sent, touched, edits, tries>>

Next ==
    \/ \E t \in DOMAIN Panels(kind) : \E f \in DOMAIN Panels(kind)[t] :
          \E v \in Panels(kind)[t][f] : EditControl(t, f, v)
    \/ \E f \in DOMAIN RowPanels(kind) :
          \/ AddRow(f)
          \/ \E i \in DOMAIN form[f] :
                RemoveRow(f, i) \/ \E c \in DOMAIN Cells[f] : \E v \in Cells[f][c] :
                                      EditCell(f, i, c, v)
    \/ \E t \in Tabs(kind) : ChooseTab(t)
    \/ Submit \/ AnswerSave
    \/ \E accept \in BOOLEAN : ServeSave(accept)

\* A request is answered.
FormFairness == WF_formVars(\E accept \in BOOLEAN : ServeSave(accept)) /\ WF_formVars(AnswerSave)

Spec == Init /\ [][Next]_formVars /\ FormFairness

-----------------------------------------------------------------------------
\* Type invariant of the dialogs.
FormTypeOK ==
    /\ kind \in Kinds /\ step \in {"editing", "sent", "ok", "err", "closed"}
    /\ tab \in Tabs(kind) /\ DOMAIN form = DOMAIN Seed(kind, stored)
    /\ problem \in {"none", "api"} \cup DOMAIN form
    /\ touched \subseteq DOMAIN form
    /\ edits \in 0..MaxEdits /\ tries \in 0..MaxTries

\* What the forms leave to the API: loose spellings of addresses ("the server's
\* `ipaddress` parse stays the authority"), the names of redirect targets and
\* whitelists, whether a text is an email address or an address at all, a colon
\* in the name of a user, and a stored user renamed without a new password, whom
\* the API does not know by that name.  Of users and clients nothing else is left.
LeftToApi(p, f) ==
    \/ f \in {"maintenance_allow", "ips", "cidrs"} /\ p[f] = "loose"
    \/ f = "forward_domain_name" /\ p[f] = "a b"
    \/ f = "users" /\ \A i \in DOMAIN p.users :
          /\ p.users[i].username # ""
          /\ \A j \in DOMAIN p.users : p.users[j].username = p.users[i].username => j = i
          /\ p.users[i].password = "null" => submittableUsers(form)[i].id # "new"
    \/ f = "clients" /\ \A i \in DOMAIN p.clients : p.clients[i].address # ""
    \/ f = "name" /\ kind = "whitelist"
    \/ f = "email" /\ (p[f] = "junk" \/ kind = "forgot_password")

\* A payload that leaves a dialog breaks no rule of the API's but the ones the
\* forms leave to it: exactly one target, coherent locations with distinct
\* paths, a domain, a protocol, the fields of one kind only ("Mirrors the
\* backend path rules so mistakes are caught before the request"), distinct
\* users who have a name and, when new, a password.
AcceptedByApi == step = "sent" => \A f \in ApiRefuses(kind, sent) : LeftToApi(sent, f)

\* The controls whose value decides what is sent for field x.
DecidedBy(x) ==
    {x} \cup (IF x \in {"upstream_id", "forward_host", "forward_port"} THEN {"mode"}
              ELSE IF x \in {"ips", "cidrs", "filter", "expressions"} THEN {"wkind"} ELSE {})

\* Field x of payload p is what is stored.  Users and clients are sent without
\* their ids, and users without a password, which keeps the stored one.
AsStored(p, x) ==
    CASE x = "users" ->
           /\ DOMAIN p.users = DOMAIN stored.users
           /\ \A i \in DOMAIN p.users :
                p.users[i].username = stored.users[i].username /\ p.users[i].password = "null"
      [] x = "clients" ->
           /\ DOMAIN p.clients = DOMAIN stored.clients
           /\ \A i \in DOMAIN p.clients :
                /\ p.clients[i].address = stored.clients[i].address
                /\ p.clients[i].directive = stored.clients[i].directive
      [] OTHER -> p[x] = stored[x]

\* Saving a stored row changes nothing the operator did not touch: every field
\* of the payload is the stored one unless its own control was used (seeding
\* and building are inverse; hidden fields such as the AppSec flag, the
\* advanced configuration of a redirection and a whitelist's switch pass
\* through).
OnlyEditsAreSent ==
    (sent # NoHost /\ isEdit) =>
        \A x \in DOMAIN sent : DecidedBy(x) \cap touched = {} => AsStored(sent, x)

\* A check that fails brings its field on the screen ("an error about a control
\* the user cannot see is not actionable").  The one exception of the code: the
\* addresses exempt from maintenance while maintenance is off.
ErrorIsShown ==
    [][(tries' # tries /\ step' = "editing") =>
          Visible(problem)' \/ (problem' = "maintenance_allow" /\ form.maintenance = "off")]_formVars

\* What value v means when it stands in field x: a port is the number its text
\* begins with, "none" and a blank in an optional field are null, texts are
\* trimmed but for passwords and the address of a forgotten one.
Meaning(x, v) ==
    CASE x \in {"incoming_port", "forward_port"} -> IF v \in {"80", "80.5"} THEN "80" ELSE "null"
      [] x \in {"certificate_id", "access_list_id"} -> IF v = "none" THEN "null" ELSE v
      [] x \in {"account_email", "chain_pem", "filter", "token", "zone", "region"} ->
            OrNull(trim(v))
      [] x = "password" \/ kind = "forgot_password" -> v
      [] OTHER -> trim(v)

\* What is sent for a control that the form does not show.
Nothing(x) == IF x \in {"ips", "cidrs", "expressions"} THEN "" ELSE "null"

\* Each field on the screen is sent with the meaning of what it shows, and a
\* field hidden by the mode or the kind that is chosen is sent as nothing.  The
\* addresses exempt from maintenance are sent although it is off.
FieldIsSent(p, x) ==
    p[x] = IF Shown(x) \/ x = "maintenance_allow" THEN Meaning(x, form[x]) ELSE Nothing(x)

\* A field of the form that is not in the payload left nothing out: the mode is
\* told by the target, no text waits in the domains' input, the password was
\* repeated, or the field is not on the form that is sent.
MayBeLeftOut(p, x) ==
    \/ x = "mode" /\ (form.mode = "pool") = (p.upstream_id # "null")
    \/ x = "pending" /\ form.pending = "none"
    \/ x = "confirm" /\ form.confirm = form.password
    \/ kind = "certificate" /\ x \notin DOMAIN Panels(kind)[tab]
    \/ kind = "user" /\ ~UserControl(x, stored)
    \/ kind = "dns_credential" /\ IF x = "provider" THEN isEdit
                                   ELSE x \notin Catalog[form.provider]

FieldsAreSent(p) ==
    \A x \in DOMAIN form \ DOMAIN RowPanels(kind) :
        IF x \in DOMAIN p THEN FieldIsSent(p, x) ELSE MayBeLeftOut(p, x)

\* Every location is sent with its path, its kind, its scheme and the target of
\* its kind, and no other.
LocationsAreSent(p) ==
    /\ DOMAIN p.locations = DOMAIN form.locations
    /\ \A i \in DOMAIN form.locations :
         LET r == form.locations[i] l == p.locations[i] IN
         /\ l.path = r.path /\ l.target = r.mode /\ l.forward_scheme = r.forward_scheme
         /\ \A c \in {"upstream_id", "forward_host", "forward_port", "page", "code"} :
              l[c] = IF c \in TargetCell(r.mode) THEN Meaning(c, r[c]) ELSE "null"

\* The rows of a table that hold anything, and the place of the i-th among them.
UserRowsInUse ==
    {i \in DOMAIN form.users : \/ form.users[i].id # "new"
                               \/ form.users[i].username # "" \/ form.users[i].password # ""}
ClientRowsInUse ==
    {i \in DOMAIN form.clients : \/ form.clients[i].id # "new"
                                 \/ form.clients[i].address # "" \/ form.clients[i].directive = "deny"}
PlaceIn(places, i) == Cardinality({j \in places : j <= i})

\* Every user with a name or a password and every rule with an address or
\* switched to deny is sent, in order and as entered (isBlankUser,
\* isBlankClient: "silently dropping a deny rule the user believed they had
\* added is the worst outcome here").
UsersAreSent(p) ==
    /\ Len(p.users) = Cardinality(UserRowsInUse)
    /\ \A i \in UserRowsInUse :
         LET u == p.users[PlaceIn(UserRowsInUse, i)] IN
         u.username = form.users[i].username /\ u.password = OrNull(form.users[i].password)
ClientsAreSent(p) ==
    /\ Len(p.clients) = Cardinality(ClientRowsInUse)
    /\ \A i \in ClientRowsInUse :
         LET c == p.clients[PlaceIn(ClientRowsInUse, i)] IN
         c.address = form.clients[i].address /\ c.directive = form.clients[i].directive

\* What leaves a dialog is what stands in it: every field with its meaning,
\* every row of its tables with its contents.
EditsAreSent ==
    step = "sent" =>
        /\ FieldsAreSent(sent)
        /\ kind = "proxy" => LocationsAreSent(sent)
        /\ kind = "access_list" => UsersAreSent(sent) /\ ClientsAreSent(sent)

\* A user whose row was left alone keeps the password the API holds, and one
\* whose password was typed gets the typed one, whatever rows were added,
\* removed or renamed around it.  The secret of a DNS credential is kept when
\* its field is left blank, and one that is sent was entered for the provider
\* it is stored with, whatever provider was chosen in between.
PasswordsAsEntered ==
    /\ (kind = "dns_credential" /\ step = "ok") =>
        users.token = IF isEdit /\ trim(form.token) = "" THEN stored.hash ELSE form.provider
    /\ (kind = "access_list" /\ step = "ok") =>
        \A i \in DOMAIN submittableUsers(form) :
            LET r == submittableUsers(form)[i] IN
            IF r.password # "" THEN users[r.username] = "typed"
            ELSE \A j \in DOMAIN stored.users :
                   (stored.users[j].id = r.id /\ stored.users[j].username = r.username) =>
                        users[r.username] = stored.users[j].hash

\* No save lasts for ever: it ends in a closed dialog or in one that can be
\* edited again.
SaveEnds == []<>(step \in {"editing", "closed"})

=============================================================================
