\* Two lists, one that ships with the panel, over outages, edits, failures and deaths.
SPECIFICATION FairSpec
CONSTANTS
    d = d
    e = e
    i = i
    own = own
    shipped = shipped
    Lists = {own, shipped}
    Domains = {d, e}
    Ips = {i}
    Contents <- Served
    First <- Serves
    Nothing = Nothing
    Legacy <- Mixed
    Snapshot <- Ships
    Budgets <- All
INVARIANTS
    RecordAgrees
    DnsSeesNoIps
PROPERTIES
    Settles
