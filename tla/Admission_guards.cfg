SPECIFICATION BoundedSpec
CONSTANTS
    d1 = d1  d2 = d2  r1 = r1  r2 = r2
    home = home  site = site  ann = ann  bob = bob  shop = shop  blog = blog
    Calls = {d1, d2}
    Home = home
    Site = site
    Owner = ann
    Emails = {ann, bob}
    Bases <- SiteNames
    SiteBase <- SiteName
    Limits = {1}
    Domains = {shop}
    Hosts = {blog}
    Kinds = {"register", "create", "update", "rotate", "configure"}
    Requests = {r1, r2}
    DefaultLimit = 2
    MaxWindow = 2
    MaxSends = 2
    None = None
SYMMETRY Symmetry
INVARIANTS NamesAssigned TenantsApart LimitExact CountersExpire
CHECK_DEADLOCK FALSE
