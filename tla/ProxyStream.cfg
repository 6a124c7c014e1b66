SPECIFICATION StreamSpec
CONSTANTS
  Chains <- MCChains
  Families = {"v4", "v6"}
  QuicBytes = 4
  SocketBytes = 4
  BUFFER = 2
  BATCH = 2
  Targets = {t1, t2}
  Kinds = {"direct", "socks5", "socks5_shadowsocks", "shadowsocks_socks5", "shadowsocks", "trojan",
           "vless", "vmess", "tuic", "hysteria2", "juicity", "http"}
  Addresses <- AddressLists
  MaxAddresses = 2
  Sources = {"any", "v4", "v6"}
  MaxFrames = 3
  MaxReplies = 3
INVARIANTS
  SecretsToTheirOwner
  
  
  ReadErrorKeepsData
  
  DatagramsGoWhereTheyShould
PROPERTIES
  ImplementsPipes
  
