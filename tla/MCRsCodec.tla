------------------------------ MODULE MCRsCodec ------------------------------
(* Bytes of two bits and limbs of two bytes, so that two to six shards cross *)
(* both boundaries.                                                          *)
EXTENDS RsCodec

Config(data, parity, chunk_len, threshold) ==
  [data_shards |-> data, parity_shards |-> parity, chunk_len |-> chunk_len,
   bitmap_threshold |-> threshold]

(* Valid shapes by shard count and by shard length; a threshold and a shard  *)
(* count that RsConfig::new rejects; no parity, which the library rejects.   *)
MCConfigs ==
  {Config(1, 1, 0, 50), Config(2, 1, 0, 50), Config(3, 2, 0, 50), Config(4, 1, 0, 100),
   Config(1, 1, 1, 50), Config(1, 1, 2, 0),
   Config(2, 0, 0, 50), Config(0, 1, 0, 50), Config(2, 1, 0, 101)}
=============================================================================
