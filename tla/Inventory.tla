------------------------------ MODULE Inventory ------------------------------
(* The rows the dialogs and forms are opened on: a new one, and stored     *)
(* ones that hold what the forms treat apart.                              *)

NewHost == [id |-> "none"]

PooledHost ==
    [id |-> "1", domain_names |-> "ok", upstream_id |-> "p", forward_host |-> "null",
     forward_port |-> "null", forward_scheme |-> "https", certificate_id |-> "pending",
     access_list_id |-> "1", enabled |-> "off", options |-> "on", tls |-> "on",
     security |-> "on", maintenance |-> "on", maintenance_allow |-> "ok",
     advanced_config |-> "text", appsec |-> "on",
     locations |-> <<[path |-> "/a", target |-> "custom_page", upstream_id |-> "null",
                      forward_host |-> "null", forward_port |-> "null",
                      forward_scheme |-> "https", page |-> "c", code |-> "null"]>>]

SingleHost ==
    [PooledHost EXCEPT !.upstream_id = "null", !.forward_host = "h", !.forward_port = "80",
       !.certificate_id = "null", !.maintenance = "off", !.locations = <<>>]

RedirectionRow ==
    [id |-> "1", domain_names |-> "ok", forward_domain_name |-> "d", forward_scheme |-> "https",
     forward_http_code |-> "301", preserve_path |-> "off", certificate_id |-> "active",
     enabled |-> "off", options |-> "on", tls |-> "on", advanced_config |-> "text"]

DeadRow ==
    [id |-> "1", domain_names |-> "ok", certificate_id |-> "null", enabled |-> "off",
     options |-> "off", tls |-> "on", advanced_config |-> "text"]

StreamRow ==
    [id |-> "1", upstream_id |-> "p", incoming_port |-> "80", forward_host |-> "null",
     forward_port |-> "null", tcp_forwarding |-> "off", udp_forwarding |-> "on",
     certificate_id |-> "active", enabled |-> "off"]

ListRow ==
    [id |-> "1", name |-> "n", satisfy_any |-> "on", pass_auth |-> "on",
     users |-> <<[id |-> "1", username |-> "u", hash |-> "hash of u"],
                 [id |-> "2", username |-> "v", hash |-> "hash of v"]>>,
     clients |-> <<[id |-> "1", address |-> "10.0.0.1", directive |-> "deny"]>>]

WhitelistRow ==
    [id |-> "1", wkind |-> "expression", name |-> "n", enabled |-> "off", ips |-> "",
     cidrs |-> "", filter |-> "null", expressions |-> "e"]

UserRow ==
    [id |-> "1", email |-> "e", full_name |-> "n", role |-> "admin", is_active |-> "off"]
OwnRow == [UserRow EXCEPT !.id = "self", !.is_active = "on"]
TargetRow == [id |-> "1"]

CredentialRow ==
    [id |-> "1", name |-> "n", provider |-> "aws", token |-> "null", region |-> "r",
     hash |-> "hash of token"]

Inventory ==
    [proxy |-> {NewHost, PooledHost, SingleHost}, redirection |-> {NewHost, RedirectionRow},
     dead |-> {NewHost, DeadRow}, stream |-> {NewHost, StreamRow},
     access_list |-> {NewHost, ListRow}, certificate |-> {NewHost},
     whitelist |-> {NewHost, WhitelistRow}, user |-> {NewHost, UserRow, OwnRow},
     invite |-> {NewHost}, reset_password |-> {TargetRow}, change_password |-> {NewHost},
     reset_link |-> {NewHost}, accept_invite |-> {NewHost}, forgot_password |-> {NewHost},
     dns_credential |-> {NewHost, CredentialRow}]
InventoryTexts ==
    {"1", "2", "self", "u", "v", "10.0.0.1", "hash of u", "hash of v", "hash of token"}

=============================================================================
